---- MODULE Spec2Model ----
(***************************************************************************)
(* Order lifecycle workflow of the frozzenbot backend.                     *)
(*                                                                         *)
(* The model covers the order table, the status-history ledger, the        *)
(* payment table and the request handlers that write them:                 *)
(*   OrderService.create_order / update_order_status / cancel_order /      *)
(*   update_order_priority, OrderWorkflow.transition_status /              *)
(*   bulk_transition_orders / process_automatic_transitions and            *)
(*   PaymentService.create_payment / process_successful_payment /          *)
(*   process_failed_payment / process_refund.                              *)
(*                                                                         *)
(* Time.  `now` is datetime.utcnow() counted in ticks of 30 seconds.  A    *)
(* step that inserts a history row takes at least one tick, so two rows    *)
(* never carry the same changed_at.                                        *)
(*                                                                         *)
(* Sessions.  Every handler owns one ORM session (`dirty` = loaded rows    *)
(* with unflushed attribute changes, `new` = pending history rows).  A     *)
(* commit flushes the whole session: for a dirty row only the attributes   *)
(* whose value differs from the loaded one are written.  A commit that     *)
(* fails rolls the transaction back, discards the pending state and        *)
(* leaves the session unusable until rollback() is called.                 *)
(*                                                                         *)
(* Background work.  The notification table with NotificationService       *)
(* (send_notification, the drain of scheduled notifications, the sweep     *)
(* over failed ones), the in-memory NotificationScheduler with its loop    *)
(* and task registry, and the tasks of OrderAutomationTasks.  A name is    *)
(* resolved as Python resolves it: a module reads only the names it binds, *)
(* an enum has only the members it defines, and a class keeps the last     *)
(* binding of a method name.                                               *)
(*                                                                         *)
(* Specifications.  Spec: one worker and the services; ConcurrentSpec: two *)
(* workers; RuleSpec: the automation rules on one order row; SchedulerSpec:*)
(* the scheduler loop and its callers; NotificationSpec: sends, drains and *)
(* sweeps on a notification table; MonitorSpec: the overdue monitoring;    *)
(* UptimeSpec: a started scheduler followed past its first retry sweep;    *)
(* FeedbackSpec: two workers saving feedback ratings; TimingSpec: one      *)
(* order row entering Completed; LifecycleSpec: the scheduler with any     *)
(* sequence of start() and stop() calls and one record per loop task;      *)
(* WalkSpec: one order driven through validated transitions only.          *)
(*                                                                         *)
(* The methods of OrderService are modelled by their bodies, as they run   *)
(* once app/services/order.py is loaded.                                   *)
(***************************************************************************)
EXTENDS Integers, Sequences, FiniteSets, TLC

\* ---------------------------------------------------------------- bounds
MaxTime == 3
MaxOrders == 1
MaxBatch == 2

\* ------------------------------------------------------------- constants
None == 0 - 1

OrderStatus ==
    {"pending", "confirmed", "preparing", "ready",
     "completed", "cancelled", "refunded", "failed"}

OrderPriority == {"low", "normal", "high", "vip"}

\* the priorities a priority change may ask for
PriorityInputs == {"vip"}

\* <<cancelled_by_user_id, refund_amount>> of a cancellation request
CancelInputs == {<<None, None>>, <<1, 1>>}

\* the request workers, one session each
Handlers == {"h1", "h2"}

\* what a step that inserts a history row takes, in ticks
TickSteps == {1, 2}

\* the ids a request may name: the stored orders and one id that is never stored
RequestIds == 1 .. (MaxOrders + 1)

PaymentMethods == {"card"}

\* the amounts a refund request may carry (every order has total_amount 1)
RefundAmounts == {1, 2}

VARIABLES now, orders, history, payments, hs,
          notifications, feedback, tasks, sched, last_run

\* the tables and workers of the order workflow
order_vars == <<now, orders, history, payments, hs>>

\* the notification table, the feedback ratings, the scheduler's task
\* registry and loop, and the result of the last background run
background_vars == <<notifications, feedback, tasks, sched, last_run>>

vars == <<order_vars, background_vars>>

\* the orders for which select(FeedbackRating).where(order_id == ...) finds
\* a row
RatedOrders == {feedback[i].order_id : i \in DOMAIN feedback}

\* ------------------------------------------------------ python helpers
\* `not x` for an Optional[int]
Falsy(x) == x = None \/ x = 0

\* timedelta.total_seconds() of a difference of d ticks
total_seconds(d) == 30 * d

\* int(seconds / 60): truncation toward zero
int_div_60(secs) == IF secs >= 0 THEN secs \div 60 ELSE 0 - ((0 - secs) \div 60)

\* timedelta(minutes=m) in ticks
timedelta_minutes(m) == 2 * m

\* ------------------------------------------------ transition validator
valid_transitions ==
    [s \in OrderStatus |->
        CASE s = "pending"   -> {"confirmed", "cancelled", "failed"}
          [] s = "confirmed" -> {"preparing", "cancelled"}
          [] s = "preparing" -> {"ready", "cancelled"}
          [] s = "ready"     -> {"completed", "cancelled"}
          [] s = "completed" -> {"refunded"}
          [] s = "cancelled" -> {"refunded"}
          [] s = "failed"    -> {"pending", "cancelled"}
          [] s = "refunded"  -> {}]

\* faulty variant: a refunded order may be reopened
ValidateReopensRefunded(from_status, to_status) ==
    \/ from_status = to_status
    \/ to_status \in valid_transitions[from_status]
    \/ (from_status = "refunded" /\ to_status = "pending")

\* TRUE: returns normally; FALSE: raises StatusTransitionError
_validate_transition(from_status, to_status) ==
    \/ from_status = to_status
    \/ to_status \in valid_transitions[from_status]

default_preparation_times ==
    [p \in OrderPriority |->
        CASE p = "vip"    -> 15
          [] p = "high"   -> 25
          [] p = "normal" -> 35
          [] p = "low"    -> 45]

\* faulty variant: only a Pending order can be cancelled
CancellableOnlyWhenPending(order) == order.status = "pending"

can_be_cancelled(order) == order.status \in {"pending", "confirmed", "preparing"}

can_be_refunded(order) == order.status \in {"completed", "cancelled"}

\* Order.is_completed_state
is_completed_state(order) ==
    order.status \in {"completed", "cancelled", "failed", "refunded"}

\* Order.get_estimated_completion_time; a datetime is never falsy
get_estimated_completion_time(order) ==
    IF Falsy(order.estimated_preparation_time)
    THEN None
    ELSE LET base_time == IF order.status_confirmed_at # None
                          THEN order.status_confirmed_at
                          ELSE order.created_at
         IN  base_time + timedelta_minutes(order.estimated_preparation_time)

\* faulty variant: an order in a final state can be overdue
OverdueIgnoresFinalState(order, t) ==
    LET estimated == get_estimated_completion_time(order)
    IN  IF estimated = None THEN FALSE ELSE t > estimated

\* Order.is_overdue at time t
is_overdue(order, t) ==
    LET estimated == get_estimated_completion_time(order)
    IN  IF estimated = None
        THEN FALSE
        ELSE t > estimated /\ ~is_completed_state(order)

\* ------------------------------------------------------------ order rows
\* Order(...) as inserted by create_order at time t
NewOrder(t, pm) ==
    [status |-> "pending",
     priority |-> "normal",
     payment_method |-> pm,
     delivery_type |-> "delivery",
     total_amount |-> 1,
     created_at |-> t,
     status_pending_at |-> t,
     status_confirmed_at |-> None,
     status_preparing_at |-> None,
     status_ready_at |-> None,
     status_completed_at |-> None,
     status_cancelled_at |-> None,
     estimated_preparation_time |-> None,
     estimated_delivery_time |-> None,
     actual_preparation_start |-> None,
     actual_preparation_end |-> None,
     delivery_completed_at |-> None,
     preparation_duration |-> None,
     total_duration |-> None,
     cancellation_reason |-> "none",
     cancelled_by_user_id |-> None,
     refund_amount |-> None,
     refund_reason |-> "none",
     automation_flags |-> {}]

\* Order.set_automation_flag on a flag mapping kept as a set of <<flag, value>>
set_automation_flag(flags, flag, value) ==
    {p \in flags : p[1] # flag} \cup {<<flag, value>>}

\* ------------------------------------------------------ timing calculator
\* faulty variant: entering Confirmed always resets the estimate to the
\* priority default
TimingOverwritesEstimate(order, status, t) ==
    IF status = "confirmed"
    THEN [order EXCEPT
            !.estimated_preparation_time = default_preparation_times[order.priority],
            !.estimated_delivery_time =
                t + timedelta_minutes(default_preparation_times[order.priority])]
    ELSE order

_auto_calculate_timing_fields(order, status, t) ==
    CASE status = "confirmed" ->
            LET ept == IF Falsy(order.estimated_preparation_time)
                       THEN default_preparation_times[order.priority]
                       ELSE order.estimated_preparation_time
                o1 == [order EXCEPT !.estimated_preparation_time = ept]
            IN  IF ~Falsy(ept)
                THEN [o1 EXCEPT !.estimated_delivery_time = t + timedelta_minutes(ept)]
                ELSE o1
      [] status = "preparing" ->
            IF order.actual_preparation_start = None
            THEN [order EXCEPT !.actual_preparation_start = t]
            ELSE order
      [] status = "ready" ->
            LET o1 == IF order.actual_preparation_end = None
                      THEN [order EXCEPT !.actual_preparation_end = t]
                      ELSE order
            IN  IF o1.actual_preparation_start # None /\ Falsy(o1.preparation_duration)
                THEN [o1 EXCEPT !.preparation_duration =
                         int_div_60(total_seconds(t - o1.actual_preparation_start))]
                ELSE o1
      [] status = "completed" ->
            LET o1 == IF Falsy(order.total_duration)
                      THEN [order EXCEPT !.total_duration =
                               int_div_60(total_seconds(t - order.created_at))]
                      ELSE order
            IN  IF o1.delivery_type = "delivery"
                THEN [o1 EXCEPT !.delivery_completed_at = t]
                ELSE o1
      [] OTHER -> order

_update_status_timestamps(order, status, auto_calculate, t) ==
    LET o1 == CASE status = "pending"   -> [order EXCEPT !.status_pending_at = t]
                [] status = "confirmed" -> [order EXCEPT !.status_confirmed_at = t]
                [] status = "preparing" -> [order EXCEPT !.status_preparing_at = t]
                [] status = "ready"     -> [order EXCEPT !.status_ready_at = t]
                [] status = "completed" -> [order EXCEPT !.status_completed_at = t]
                [] status = "cancelled" -> [order EXCEPT !.status_cancelled_at = t]
                [] OTHER -> order
    IN  IF auto_calculate THEN _auto_calculate_timing_fields(o1, status, t) ELSE o1

\* ---------------------------------------------------------- history rows
\* OrderStatusHistory.create_status_change; changed_at is filled in by the flush
create_status_change(order_id, from_status, to_status, reason, changed_by_user_id) ==
    [order_id |-> order_id,
     from_status |-> from_status,
     to_status |-> to_status,
     reason |-> reason,
     changed_by_user_id |-> changed_by_user_id,
     changed_at |-> None,
     duration_from_previous |-> None]

NoHistory == create_status_change(0, "none", "none", "none", None)

RECURSIVE SelectByOrder(_, _)
SelectByOrder(rows, order_id) ==
    IF rows = <<>> THEN <<>>
    ELSE IF Head(rows).order_id = order_id
         THEN <<Head(rows)>> \o SelectByOrder(Tail(rows), order_id)
         ELSE SelectByOrder(Tail(rows), order_id)

\* rows of one order ORDER BY changed_at ASC (insertion sort, stable)
RECURSIVE InsertByChangedAt(_, _)
InsertByChangedAt(sorted, r) ==
    IF sorted = <<>> THEN <<r>>
    ELSE IF Head(sorted).changed_at < r.changed_at
         THEN <<Head(sorted)>> \o InsertByChangedAt(Tail(sorted), r)
         ELSE <<r>> \o sorted

RECURSIVE OrderByChangedAt(_)
OrderByChangedAt(rows) ==
    IF rows = <<>> THEN <<>>
    ELSE InsertByChangedAt(OrderByChangedAt(Tail(rows)), Head(rows))

\* the status-history part of get_order_timeline
get_order_timeline(order_id) == OrderByChangedAt(SelectByOrder(history, order_id))

\* ORDER BY changed_at DESC LIMIT 1; NoHistory stands for None
_get_last_status_history(order_id) ==
    LET tl == get_order_timeline(order_id)
    IN  IF tl = <<>> THEN NoHistory ELSE tl[Len(tl)]

\* ------------------------------------------------------------- handlers
EmptyResults ==
    [successful |-> <<>>, failed |-> <<>>,
     total_processed |-> 0, success_count |-> 0, failure_count |-> 0]

NoScan == [processed_orders |-> 0, transitions_made |-> 0, errors |-> 0]

\* a request worker between two requests, with a fresh session
IdleHandler ==
    [pc |-> "idle", kind |-> "none",
     order_id |-> 0, new_status |-> "none", reason |-> "none", user |-> None,
     old_status |-> "none", duration |-> None, last_seen |-> None,
     dirty |-> {}, new |-> <<>>, active |-> TRUE,
     order_ids |-> <<>>, results |-> EmptyResults, auto_results |-> NoScan,
     ret |-> "none", err |-> "none", ret_history |-> NoHistory, ret_flags |-> {},
     notified |-> "none", hooks |-> "none"]

\* worker h is free to take a request
Dispatch(h) == hs[h].pc = "idle"

\* the session's copy of the order the handler is working on
Cur(hr) == CHOOSE e \in hr.dirty : e.order_id = hr.order_id

\* await db.execute(select(Order).where(Order.id == order_id, ...)) found a row
Loaded(hr, order_id) ==
    [hr EXCEPT !.order_id = order_id,
               !.dirty = {e \in hr.dirty : e.order_id # order_id}
                         \cup {[order_id |-> order_id,
                                loaded |-> orders[order_id],
                                current |-> orders[order_id]]}]

SetCur(hr, order) ==
    [hr EXCEPT !.dirty = {e \in hr.dirty : e.order_id # hr.order_id}
                         \cup {[Cur(hr) EXCEPT !.current = order]}]

\* session.dirty: the loaded rows that carry a change
Modified(dirty) == {e \in dirty : e.current # e.loaded}

\* the call returns to the client: only the returned value is left
Return(hr, ret, err) ==
    [IdleHandler EXCEPT !.pc = "done", !.kind = hr.kind, !.ret = ret, !.err = err]

\* the next iteration of the bulk loop, or its return; the locals of the
\* finished call of transition_status go out of scope
NextItem(hr, results) ==
    IF results.total_processed = Len(hr.order_ids)
    THEN [Return(hr, "results", "none") EXCEPT !.results = results,
                                               !.order_ids = hr.order_ids]
    ELSE [hr EXCEPT !.results = results, !.pc = "bulk",
                    !.order_id = 0, !.old_status = "none",
                    !.duration = None, !.last_seen = None,
                    !.dirty = Modified(@)]

\* the outcome of one call as its caller reports it
\*   update_order_status: the exception is re-raised
\*   cancel_order: except Exception -> return False
\*   bulk_transition_orders: the item is appended to results['failed']
Fail(hr, error) ==
    CASE hr.kind = "update" -> Return(hr, "raise", error)
      [] hr.kind = "cancel" -> Return(hr, "False", error)
      [] hr.kind = "bulk" ->
            NextItem(hr, [hr.results EXCEPT
                            !.failed = Append(@, [order_id |-> hr.order_id,
                                                  error |-> error]),
                            !.failure_count = @ + 1])

\* hist and flags are the (order, history) pair transition_status returns
Succeed(hr, hist, flags, notified, hooks) ==
    CASE hr.kind \in {"update", "cancel"} ->
            [Return(hr, IF hr.kind = "update" THEN "order" ELSE "True", "none")
                EXCEPT !.ret_history = hist, !.ret_flags = flags,
                       !.notified = notified, !.hooks = hooks]
      [] hr.kind = "bulk" ->
            NextItem(hr, [hr.results EXCEPT
                            !.successful =
                                Append(@, [order_id |-> hr.order_id,
                                           old_status |-> hist.from_status,
                                           new_status |-> hist.to_status]),
                            !.success_count = @ + 1])

\* transition_status, lines 137-152: mutate the session's order at time t and
\* add the history row to the session
MutateAndRecord(hr, duration, t) ==
    LET order == Cur(hr).current
        o1 == _update_status_timestamps([order EXCEPT !.status = hr.new_status],
                                        hr.new_status, TRUE, t)
        hist == [create_status_change(hr.order_id, hr.old_status, hr.new_status,
                                      hr.reason, hr.user)
                   EXCEPT !.duration_from_previous = duration]
        h1 == SetCur(hr, o1)
    IN  [h1 EXCEPT !.duration = duration, !.new = Append(@, hist), !.pc = "commit"]

\* transition_status, lines 122-135, up to its first await
EnterTransition(hr, new_status, reason, user) ==
    LET old_status == Cur(hr).current.status
        h1 == [hr EXCEPT !.new_status = new_status, !.reason = reason, !.user = user,
                         !.old_status = old_status]
    IN  IF ~_validate_transition(old_status, new_status)
        THEN Fail(h1, "StatusTransitionError")
        ELSE IF old_status # new_status
             THEN [h1 EXCEPT !.pc = "read"]
             ELSE MutateAndRecord(h1, None, now)

\* OrderService.update_order_status
update_order_status(h, order_id, new_status) ==
    /\ Dispatch(h)
    /\ LET h0 == [hs[h] EXCEPT !.kind = "update"]
       IN  hs' = [hs EXCEPT ![h] =
                    IF order_id \notin DOMAIN orders
                    THEN Return(h0, "None", "not_found")
                    ELSE EnterTransition(Loaded(h0, order_id), new_status,
                                         "manual_admin", None)]
    /\ UNCHANGED <<now, orders, history, payments, background_vars>>

\* OrderService.cancel_order
cancel_order(h, order_id, cancelled_by_user_id, refund_amount) ==
    /\ Dispatch(h)
    /\ LET h0 == [hs[h] EXCEPT !.kind = "cancel"]
       IN  hs' = [hs EXCEPT ![h] =
                    IF order_id \notin DOMAIN orders
                    THEN Return(h0, "False", "not_found")
                    ELSE IF ~can_be_cancelled(orders[order_id])
                    THEN Return(h0, "False", "cannot_be_cancelled")
                    ELSE LET h1 == Loaded(h0, order_id)
                             o0 == Cur(h1).current
                             o1 == [o0 EXCEPT !.cancelled_by_user_id = cancelled_by_user_id,
                                              !.cancellation_reason = "given"]
                             o2 == IF ~Falsy(refund_amount)
                                   THEN [o1 EXCEPT !.refund_amount = refund_amount]
                                   ELSE o1
                         IN  EnterTransition(SetCur(h1, o2), "cancelled",
                                 IF ~Falsy(cancelled_by_user_id)
                                 THEN "cancelled_by_customer" ELSE "cancelled_by_admin",
                                 cancelled_by_user_id)]
    /\ UNCHANGED <<now, orders, history, payments, background_vars>>

\* bulk_transition_orders, one iteration of `for order_id in order_ids`
\* up to the first await inside transition_status
BulkItem(hr) ==
    LET order_id == hr.order_ids[hr.results.total_processed + 1]
        h1 == [hr EXCEPT !.results.total_processed = @ + 1, !.order_id = order_id]
    IN  IF ~hr.active
        THEN Fail(h1, "PendingRollbackError")
        ELSE IF order_id \notin DOMAIN orders
        THEN Fail(h1, "Order not found")
        ELSE EnterTransition(Loaded(h1, order_id), hr.new_status, "manual_admin", None)

bulk_transition_orders(h, order_ids, new_status) ==
    /\ Dispatch(h)
    /\ hs' = [hs EXCEPT ![h] =
                BulkItem([hs[h] EXCEPT !.kind = "bulk", !.pc = "bulk",
                                       !.order_ids = order_ids,
                                       !.new_status = new_status])]
    /\ UNCHANGED <<now, orders, history, payments, background_vars>>

BulkNext(h) ==
    /\ hs[h].pc = "bulk"
    /\ hs' = [hs EXCEPT ![h] = BulkItem(hs[h])]
    /\ UNCHANGED <<now, orders, history, payments, background_vars>>

\* transition_status, lines 129-152: await _get_last_status_history, the
\* duration, then the mutation of the order and the new history row
ReadLast(h) ==
    /\ hs[h].pc = "read"
    /\ LET last_history == _get_last_status_history(hs[h].order_id)
           duration == IF last_history # NoHistory
                       THEN int_div_60(total_seconds(now - last_history.changed_at))
                       ELSE None
           h1 == [hs[h] EXCEPT !.last_seen = last_history.changed_at]
       IN  hs' = [hs EXCEPT ![h] = MutateAndRecord(h1, duration, now)]
    /\ UNCHANGED <<now, orders, history, payments, background_vars>>

\* the unit of work: UPDATE of the attributes that changed since the load
ApplyDiff(row, loaded, current) ==
    [f \in DOMAIN row |-> IF current[f] # loaded[f] THEN current[f] ELSE row[f]]

Flush(dirty) ==
    [i \in DOMAIN orders |->
        IF \E e \in dirty : e.order_id = i
        THEN LET e == CHOOSE x \in dirty : x.order_id = i
             IN  ApplyDiff(orders[i], e.loaded, e.current)
        ELSE orders[i]]

\* INSERT of the pending history rows; changed_at defaults to utcnow()
InsertRows(new, t) == [i \in 1 .. Len(new) |-> [new[i] EXCEPT !.changed_at = t]]

\* the session after a successful commit
Committed(hr) == [hr EXCEPT !.dirty = {}, !.new = <<>>]

\* faulty variant: a commit that raised leaves the pending changes in a
\* session that goes on working
KeepsPendingChanges(hr) == hr

\* the session after a commit that raised: the transaction is rolled back,
\* the pending rows are expunged, the dirty rows expired, and the session
\* refuses further work until rollback() is called
RolledBack(hr) ==
    [hr EXCEPT !.dirty = {}, !.new = <<>>, !.active = FALSE]

\* _execute_post_transition_hooks on the refreshed order's flags
_execute_post_transition_hooks(flags, new_status, delivery_type) ==
    LET f1 == set_automation_flag(flags, "auto_transition_scheduled", TRUE)
    IN  CASE new_status = "confirmed" ->
                set_automation_flag(set_automation_flag(f1, "kitchen_notified", FALSE),
                                    "auto_preparing_eligible", TRUE)
          [] new_status = "preparing" ->
                set_automation_flag(set_automation_flag(f1, "kitchen_notified", TRUE),
                                    "preparation_started", TRUE)
          [] new_status = "ready" ->
                IF delivery_type = "pickup"
                THEN set_automation_flag(f1, "auto_complete_eligible", TRUE)
                ELSE f1
          [] new_status = "completed" ->
                set_automation_flag(set_automation_flag(f1, "workflow_completed", TRUE),
                                    "feedback_eligible", TRUE)
          [] new_status = "cancelled" ->
                set_automation_flag(set_automation_flag(f1, "workflow_cancelled", TRUE),
                                    "refund_eligible", TRUE)
          [] OTHER -> f1

\* ------------------------------------------------ notification service
\* models/notification.py, class NotificationType
NotificationType ==
    {"order_created", "order_confirmed", "order_preparing", "order_ready",
     "order_completed", "order_cancelled", "payment_success", "payment_failed",
     "feedback_request", "admin_new_order", "admin_payment_failed",
     "admin_daily_stats"}

\* timedelta(hours=h) in ticks
timedelta_hours(h) == 120 * h

\* Notification(...) as send_notification builds it; `attempts` counts the
\* calls of bot.send_message made for the row
NewNotification(notification_type, order_id, schedule_for) ==
    [notification_type |-> notification_type,
     order_id |-> order_id,
     scheduled_at |-> schedule_for,
     status |-> IF schedule_for # None THEN "scheduled" ELSE "pending",
     sent_at |-> None,
     retry_count |-> 0,
     attempts |-> 0]

\* _send_telegram_message at time t; bot_ok: bot.send_message returns
_send_telegram_message(notification, bot_ok, t) ==
    IF bot_ok
    THEN [notification EXCEPT !.status = "sent", !.sent_at = t, !.attempts = @ + 1]
    ELSE [notification EXCEPT !.status = "failed", !.retry_count = @ + 1,
                              !.attempts = @ + 1]

\* send_notification of lines 31-74: the notification table after the call
send_notification(table, notification_type, order_id, schedule_for, bot_ok, t) ==
    LET notification == NewNotification(notification_type, order_id, schedule_for)
    IN  Append(table, IF schedule_for = None
                      THEN _send_telegram_message(notification, bot_ok, t)
                      ELSE notification)

\* class NotificationService binds the name send_notification twice, at
\* line 31 and, as a static method, at line 719; each binding with the
\* keywords its signature accepts, in the order of the class body
send_notification_bindings ==
    <<[line |-> 31,
       keywords |-> {"telegram_id", "message", "notification_type", "target_type",
                     "order_id", "user_id", "title", "inline_keyboard",
                     "schedule_for", "metadata"}],
      [line |-> 719, keywords |-> {"telegram_id", "message"}]>>

\* the class body is executed top to bottom, so a name keeps the binding
\* made last
ClassAttribute(bindings) == bindings[Len(bindings)]

\* a call of <service>.send_notification with the given keywords: a keyword
\* the bound function does not accept raises TypeError; the static method of
\* lines 718-721 sends the text through the bot and keeps no row
NotificationService_send_notification(table, keywords, notification_type, order_id, schedule_for, bot_ok, t) ==
    LET f == ClassAttribute(send_notification_bindings)
    IN  IF ~(keywords \subseteq f.keywords)
        THEN [raises |-> TRUE, table |-> table]
        ELSE IF f.line = 31
        THEN [raises |-> FALSE,
              table |-> send_notification(table, notification_type, order_id,
                                          schedule_for, bot_ok, t)]
        ELSE [raises |-> FALSE, table |-> table]

\* notify_order_status_change, lines 233-241: the enum members the dict
\* display names, by order status
notification_type_map ==
    [confirmed |-> "order_confirmed",
     preparing |-> "order_preparing",
     ready     |-> "order_ready",
     completed |-> "order_completed",
     cancelled |-> "order_cancelled",
     refunded  |-> "order_refunded",
     failed    |-> "order_failed"]

\* _schedule_feedback_request at time t; ratings: the orders with a
\* FeedbackRating row.  An exception of the call is logged at lines 401-402.
_schedule_feedback_request(table, ratings, order_id, t) ==
    IF order_id \in ratings
    THEN table
    ELSE NotificationService_send_notification(
             table,
             {"telegram_id", "message", "notification_type", "target_type",
              "order_id", "user_id", "title", "inline_keyboard", "schedule_for"},
             "feedback_request", order_id, t + timedelta_hours(1), TRUE, t).table

\* notify_order_status_change for an order whose user exists, at time t.
\* Naming a member the enum does not have raises AttributeError, which the
\* handler at lines 346-348 logs before it returns False, as it does for an
\* exception of the send.
notify_order_status_change(table, ratings, order_id, status, bot_ok, t) ==
    IF \E s \in DOMAIN notification_type_map :
            notification_type_map[s] \notin NotificationType
    THEN [ret |-> FALSE, table |-> table]
    ELSE IF status \notin DOMAIN notification_type_map
            /\ "order_status_changed" \notin NotificationType
    THEN [ret |-> FALSE, table |-> table]
    ELSE LET notification_type ==
                 IF status \in DOMAIN notification_type_map
                 THEN notification_type_map[status]
                 ELSE "order_status_changed"
             sent == NotificationService_send_notification(
                         table,
                         {"telegram_id", "message", "notification_type",
                          "target_type", "order_id", "user_id", "title"},
                         notification_type, order_id, None, bot_ok, t)
         IN  IF sent.raises
             THEN [ret |-> FALSE, table |-> table]
             ELSE [ret |-> TRUE,
                   table |-> IF status = "completed"
                             THEN _schedule_feedback_request(sent.table, ratings,
                                                             order_id, t)
                             ELSE sent.table]

\* max_retries: int = 3, of retry_failed_notifications and of ScheduledTask
DefaultMaxRetries == 3

\* the loop of lines 587-592 and 618-623: one delivery attempt for each
\* selected row; `failing`: the rows for which bot.send_message raises
Deliver(table, selected, failing, t) ==
    [i \in DOMAIN table |->
        IF i \in selected
        THEN _send_telegram_message(table[i], i \notin failing, t)
        ELSE table[i]]

\* process_scheduled_notifications at time t: the count returned and the
\* table after it
process_scheduled_notifications(table, failing, t) ==
    LET selected == {i \in DOMAIN table :
                        /\ table[i].status = "scheduled"
                        /\ table[i].scheduled_at # None
                        /\ table[i].scheduled_at <= t}
    IN  [count |-> Cardinality(selected \ failing),
         table |-> Deliver(table, selected, failing, t)]

\* faulty variant: the sweep retries every failed notification
RetryIgnoresLimit(table, max_retries, failing, t) ==
    LET selected == {i \in DOMAIN table : table[i].status = "failed"}
    IN  [count |-> Cardinality(selected \ failing),
         table |-> Deliver(table, selected, failing, t)]

\* retry_failed_notifications(max_retries) at time t
retry_failed_notifications(table, max_retries, failing, t) ==
    LET selected == {i \in DOMAIN table :
                        /\ table[i].status = "failed"
                        /\ table[i].retry_count < max_retries}
    IN  [count |-> Cardinality(selected \ failing),
         table |-> Deliver(table, selected, failing, t)]

\* _send_status_change_notifications on the refreshed order: what is logged,
\* and the notification table after it
_send_status_change_notifications(table, ratings, order_id, old_status, new_status, status, delivered, t) ==
    IF old_status # new_status
    THEN LET r == notify_order_status_change(table, ratings, order_id, status,
                                             delivered, t)
         IN  [notified |-> IF r.ret THEN "sent" ELSE "error_logged",
              table |-> r.table]
    ELSE [notified |-> "skipped", table |-> table]

\* faulty variant: a failed notification or hook fails the call
SideEffectFailureRaises(hr, hist, flags, notified, hooks) ==
    IF notified = "error_logged" \/ hooks = "error_logged"
    THEN Fail(hr, "side_effect_error")
    ELSE Succeed(hr, hist, flags, notified, hooks)

\* transition_status, lines 160-168: the work after the commit cannot fail
\* the call
AfterCommit(hr, hist, flags, notified, hooks) ==
    Succeed(hr, hist, flags, notified, hooks)

\* transition_status, lines 154-168, commit succeeds
CommitOk(h, delivered, hooks_ok, d) ==
    /\ hs[h].pc = "commit"
    /\ now + d <= MaxTime
    /\ LET hr == hs[h]
           rows == InsertRows(hr.new, now)
           db == Flush(hr.dirty)
           refreshed == db[hr.order_id]
           flags == IF hooks_ok
                    THEN _execute_post_transition_hooks(refreshed.automation_flags,
                             hr.new_status, refreshed.delivery_type)
                    ELSE refreshed.automation_flags
           note == _send_status_change_notifications(notifications, RatedOrders,
                       hr.order_id, hr.old_status, hr.new_status,
                       refreshed.status, delivered, now)
       IN  /\ orders' = db
           /\ history' = history \o rows
           /\ notifications' = note.table
           /\ hs' = [hs EXCEPT ![h] =
                        AfterCommit(Committed(hr), rows[Len(rows)], flags,
                            note.notified,
                            IF hooks_ok THEN "run" ELSE "error_logged")]
    /\ now' = now + d
    /\ UNCHANGED <<payments, feedback, tasks, sched, last_run>>

\* transition_status, line 156 raises
CommitFail(h) ==
    /\ hs[h].pc = "commit"
    /\ hs' = [hs EXCEPT ![h] = Fail(RolledBack(hs[h]), "commit_error")]
    /\ UNCHANGED <<now, orders, history, payments, background_vars>>

\* ------------------------------------------------- automation rule set
\* str.lower() on the payment methods that occur
lower(s) == IF s = "Cash" THEN "cash" ELSE s

\* faulty variant: the rule for cash orders is missing
AutoConfirmIgnoresCash(order, payment_status) ==
    IF order.priority = "vip" /\ payment_status = "success"
    THEN "confirmed"
    ELSE "none"

\* _check_auto_confirm_conditions; payment_status is the status of the row
\* _get_order_payment finds, "none" when there is no row
_check_auto_confirm_conditions(order, payment_status) ==
    IF order.priority = "vip" /\ payment_status = "success"
    THEN "confirmed"
    ELSE IF lower(order.payment_method) = "cash" /\ order.priority \in {"high", "vip"}
    THEN "confirmed"
    ELSE "none"

\* _check_auto_preparing_conditions at time t
_check_auto_preparing_conditions(order, t) ==
    IF /\ order.priority = "vip"
       /\ order.status_confirmed_at # None
       /\ t - order.status_confirmed_at >= timedelta_minutes(5)
    THEN "preparing"
    ELSE "none"

\* _check_auto_complete_conditions
_check_auto_complete_conditions(order) == "none"

\* auto_transition_rules.get(order.status), applied to the order when there
\* is a rule for its status
auto_transition_rules(order, payment_status, t) ==
    CASE order.status = "pending" -> _check_auto_confirm_conditions(order, payment_status)
      [] order.status = "confirmed" -> _check_auto_preparing_conditions(order, t)
      [] order.status = "ready" -> _check_auto_complete_conditions(order)
      [] OTHER -> "none"

\* the names bound at module level in order_workflow.py (lines 3-16)
order_workflow_names ==
    {"logging", "datetime", "timedelta", "Dict", "List", "Optional", "Set",
     "Tuple", "Any", "AsyncSession", "select", "and_", "or_", "func",
     "selectinload", "Order", "OrderStatus", "OrderPriority",
     "OrderStatusHistory", "StatusChangeReason", "User", "Payment",
     "PaymentStatus", "NotificationService", "logger"}

\* _get_orders_for_auto_processing: building the query reads the global
\* names below; a name that is not bound raises NameError.  Otherwise the
\* active orders marked for automatic processing are returned.
_get_orders_for_auto_processing ==
    IF {"select", "Order", "and_", "OrderStatus", "or_", "sqlalchemy",
        "selectinload"} \subseteq order_workflow_names
    THEN [raises |-> FALSE,
          ids |-> SelectSeq([i \in DOMAIN orders |-> i],
                     LAMBDA i :
                        /\ orders[i].status \in
                              {"pending", "confirmed", "preparing", "ready"}
                        /\ <<"auto_transition_scheduled", TRUE>>
                              \in orders[i].automation_flags)]
    ELSE [raises |-> TRUE, ids |-> <<>>]

\* process_automatic_transitions, lines 479-499: the loop over the eligible
\* orders; st carries the tables, the clock and the results so far
RECURSIVE ScanOrders(_, _)
ScanOrders(ids, st) ==
    IF ids = <<>>
    THEN st
    ELSE LET i == Head(ids)
             order == st.orders[i]
             counted == [st EXCEPT !.results.processed_orders = @ + 1]
             target == auto_transition_rules(order, payments[i], st.t)
             mine == SelectByOrder(st.history, i)
             duration == IF mine = <<>>
                         THEN None
                         ELSE int_div_60(total_seconds(
                                  st.t - mine[Len(mine)].changed_at))
             hist == [create_status_change(i, order.status, target, "automatic", None)
                        EXCEPT !.changed_at = st.t,
                               !.duration_from_previous = duration]
         IN  IF target = "none" \/ target = order.status
             THEN ScanOrders(Tail(ids), counted)
             ELSE IF ~_validate_transition(order.status, target)
             THEN ScanOrders(Tail(ids), [counted EXCEPT !.results.errors = @ + 1])
             ELSE ScanOrders(Tail(ids),
                     [counted EXCEPT
                        !.orders[i] = _update_status_timestamps(
                                          [order EXCEPT !.status = target],
                                          target, TRUE, st.t),
                        !.history = Append(@, hist),
                        !.t = @ + 1,
                        !.results.transitions_made = @ + 1])

\* OrderWorkflow.process_automatic_transitions: an exception of
\* _get_orders_for_auto_processing is recorded by the outer handler (lines
\* 501-504) and no order is looked at
process_automatic_transitions(h) ==
    /\ Dispatch(h)
    /\ LET eligible == _get_orders_for_auto_processing
           start == [orders |-> orders, history |-> history, t |-> now,
                     results |-> NoScan]
           scan == IF eligible.raises
                   THEN [start EXCEPT !.results.errors = @ + 1]
                   ELSE ScanOrders(eligible.ids, start)
       IN  /\ scan.t <= MaxTime
           /\ orders' = scan.orders
           /\ history' = scan.history
           /\ now' = scan.t
           /\ hs' = [hs EXCEPT ![h] =
                        [Return([@ EXCEPT !.kind = "auto"], "results", "none")
                            EXCEPT !.auto_results = scan.results]]
    /\ UNCHANGED <<payments, background_vars>>

\* the response is sent and the request's session is closed
Finish(h) ==
    /\ hs[h].pc = "done"
    /\ hs' = [hs EXCEPT ![h] = IdleHandler]
    /\ UNCHANGED <<now, orders, history, payments, background_vars>>

\* --------------------------------------------------- single-step services
\* OrderService.create_order: the row is inserted with status PENDING and
\* no history row is written
create_order(payment_method) ==
    /\ Len(orders) < MaxOrders
    /\ orders' = Append(orders, NewOrder(now, payment_method))
    /\ payments' = Append(payments, "none")
    /\ UNCHANGED <<now, history, hs, background_vars>>

\* PaymentService.create_payment
create_payment(order_id) ==
    /\ order_id \in DOMAIN orders
    /\ payments[order_id] = "none"
    /\ payments' = [payments EXCEPT ![order_id] = "pending"]
    /\ UNCHANGED <<now, orders, history, hs, background_vars>>

\* PaymentService._update_order_status_based_on_payment
_update_order_status_based_on_payment(order, payment_status, t) ==
    IF payment_status = "success" /\ order.status = "pending"
    THEN [order EXCEPT !.status = "confirmed", !.status_confirmed_at = t]
    ELSE IF payment_status = "failed" /\ order.status = "pending"
    THEN [order EXCEPT !.status = "failed"]
    ELSE order

\* PaymentService.update_payment_status
update_payment_status(order_id, status) ==
    /\ payments' = [payments EXCEPT ![order_id] = status]
    /\ orders' = [orders EXCEPT ![order_id] =
                    _update_order_status_based_on_payment(@, status, now)]
    /\ UNCHANGED <<now, history, hs, background_vars>>

\* PaymentService.process_successful_payment
process_successful_payment(order_id) ==
    /\ order_id \in DOMAIN orders
    /\ payments[order_id] = "pending"
    /\ update_payment_status(order_id, "success")

\* PaymentService.process_failed_payment
process_failed_payment(order_id) ==
    /\ order_id \in DOMAIN orders
    /\ payments[order_id] = "pending"
    /\ update_payment_status(order_id, "failed")

\* PaymentService.process_refund
process_refund(order_id, refund_amount, d) ==
    /\ order_id \in DOMAIN orders
    /\ refund_amount <= orders[order_id].total_amount
    /\ payments[order_id] \in {"none", "success"}
    /\ now + d <= MaxTime
    /\ LET old_status == orders[order_id].status
           hist == [create_status_change(order_id, old_status, "refunded",
                                         "refund_processed", None)
                      EXCEPT !.changed_at = now]
       IN  /\ orders' = [orders EXCEPT ![order_id] =
                            [@ EXCEPT !.status = "refunded",
                                      !.refund_amount = refund_amount,
                                      !.refund_reason = "given"]]
           /\ history' = Append(history, hist)
    /\ now' = now + d
    /\ UNCHANGED <<payments, hs, background_vars>>

\* OrderService.update_order_priority
update_order_priority(order_id, new_priority, d) ==
    /\ order_id \in DOMAIN orders
    /\ now + d <= MaxTime
    /\ LET status == orders[order_id].status
           hist == [create_status_change(order_id, status, status,
                                         "manual_admin", None)
                      EXCEPT !.changed_at = now]
       IN  /\ orders' = [orders EXCEPT ![order_id].priority = new_priority]
           /\ history' = Append(history, hist)
    /\ now' = now + d
    /\ UNCHANGED <<payments, hs, background_vars>>

\* ------------------------------------------------------------ scheduler
MaxClock == 30

MaxTasks == 2

\* ScheduledTask(...): the payload is kept as the order it names
ScheduledTask(task_id, execute_at, task_type, order_id, max_retries) ==
    [task_id |-> task_id, execute_at |-> execute_at, task_type |-> task_type,
     order_id |-> order_id, retry_count |-> 0, max_retries |-> max_retries]

NoTask == ScheduledTask(<<"none", 0>>, None, "none", None, 0)

\* _register_default_handlers
task_handlers ==
    {"send_notification", "process_feedback_request",
     "retry_failed_notifications", "daily_stats"}

\* the dict self.tasks keeps its keys in insertion order
TaskIds(registry) == {registry[i].task_id : i \in DOMAIN registry}

\* self.tasks[task.task_id] = task
SetTask(registry, task) ==
    IF task.task_id \in TaskIds(registry)
    THEN [i \in DOMAIN registry |->
            IF registry[i].task_id = task.task_id THEN task ELSE registry[i]]
    ELSE Append(registry, task)

\* del self.tasks[task_id]
DelTask(registry, task_id) ==
    LET Keep(task) == task.task_id # task_id
    IN  SelectSeq(registry, Keep)

\* what is recorded about a task id: how often its handler was invoked, how
\* often it raised, what became of the task, and whether cancel_task was
\* called for it before its handler had ever started
NewTaskLog(max_retries) ==
    [invoked |-> 0, failed |-> 0, fate |-> "scheduled",
     max_retries |-> max_retries, cancelled |-> FALSE]

Logged(log, task) ==
    IF task.task_id \in DOMAIN log
    THEN log
    ELSE log @@ (task.task_id :> NewTaskLog(task.max_retries))

\* NotificationScheduler(): not running and no loop.  pc is the position of
\* the loop, `due` the collected tasks not yet executed, `current` the task
\* whose handler is awaited, `sleep` the ticks the loop sleeps for;
\* `collected` and `executed` are the task ids of the tick, `ticked` and
\* `drained` the times of the last tick and of the last drain of the
\* database notifications
NewScheduler ==
    [running |-> FALSE, pc |-> "stopped", due |-> <<>>, current |-> NoTask,
     sleep |-> 1, collected |-> {}, executed |-> {},
     ticked |-> None, drained |-> None, next_id |-> 1, log |-> <<>>]

\* the handler registered for the task's type, at time t: whether it raises,
\* and the notification table after it.  db_ok: the queries of the handler's
\* session succeed.  Every handler logs and re-raises.
handler(task, table, ratings, db_ok, failing, t) ==
    CASE task.task_type = "send_notification" ->
            LET r == NotificationService_send_notification(
                         table,
                         {"telegram_id", "message", "notification_type",
                          "target_type", "order_id", "user_id", "title",
                          "inline_keyboard", "metadata"},
                         "order_confirmed", task.order_id, None, failing = {}, t)
            IN  [raises |-> r.raises, table |-> r.table]
      [] task.task_type = "process_feedback_request" ->
            IF ~db_ok
            THEN [raises |-> TRUE, table |-> table]
            ELSE IF task.order_id \in ratings
            THEN [raises |-> FALSE, table |-> table]
            ELSE LET r == NotificationService_send_notification(
                              table,
                              {"telegram_id", "message", "notification_type",
                               "target_type", "order_id", "user_id", "title",
                               "inline_keyboard"},
                              "feedback_request", task.order_id, None,
                              failing = {}, t)
                 IN  [raises |-> r.raises, table |-> r.table]
      [] task.task_type = "retry_failed_notifications" ->
            [raises |-> FALSE,
             table |-> IF db_ok
                       THEN retry_failed_notifications(table, DefaultMaxRetries,
                                                       failing, t).table
                       ELSE table]
      [] task.task_type = "daily_stats" ->
            IF ~db_ok
            THEN [raises |-> FALSE, table |-> table]
            ELSE LET r == NotificationService_send_notification(
                              table,
                              {"telegram_id", "message", "notification_type",
                               "target_type", "title"},
                              "admin_daily_stats", None, None, failing = {}, t)
                 IN  [raises |-> r.raises, table |-> r.table]

\* faulty variant: a task is retried while retry_count <= max_retries
RetriesOnceMore(registry, task, raises, t) ==
    IF raises /\ task.retry_count <= task.max_retries
    THEN [propagates |-> FALSE,
          tasks |-> SetTask(registry,
                            [task EXCEPT !.retry_count = @ + 1,
                                         !.execute_at =
                                            t + timedelta_minutes(5 * (task.retry_count + 1))])]
    ELSE [propagates |-> FALSE, tasks |-> registry]

\* faulty variant: the exception of a handler leaves _execute_task
ExecuteTaskPropagates(registry, task, raises, t) ==
    [propagates |-> raises, tasks |-> registry]

\* _execute_task, lines 104-115, once the handler has returned or raised at
\* time t: the registry after it, and whether an exception leaves the call
_execute_task(registry, task, raises, t) ==
    IF raises /\ task.retry_count < task.max_retries
    THEN [propagates |-> FALSE,
          tasks |-> SetTask(registry,
                            [task EXCEPT !.retry_count = @ + 1,
                                         !.execute_at =
                                            t + timedelta_minutes(5 * (task.retry_count + 1))])]
    ELSE [propagates |-> FALSE, tasks |-> registry]

\* the loop of lines 90-91 up to its next await: a task without a handler
\* is logged and passed over (lines 99-102), the handler of the first task
\* that has one is called; after the last task the drain is next
RECURSIVE StartNext(_)
StartNext(s) ==
    IF s.due = <<>>
    THEN [s EXCEPT !.pc = "drain", !.current = NoTask]
    ELSE LET task == Head(s.due)
             s1 == [s EXCEPT !.due = Tail(@),
                             !.executed = @ \cup {task.task_id}]
         IN  IF task.task_type \notin task_handlers
             THEN StartNext([s1 EXCEPT !.log[task.task_id].fate = "no_handler"])
             ELSE [s1 EXCEPT !.pc = "handler", !.current = task,
                             !.log[task.task_id].invoked = @ + 1]

\* _schedule_daily_stats at time t: the next 9:00, tick 0 being midnight
next_report(t) ==
    LET day == timedelta_hours(24)
        today_nine == (t - (t % day)) + timedelta_hours(9)
    IN  IF today_nine <= t THEN today_nine + day ELSE today_nine

\* start(), which main.py calls once, when the application starts
start ==
    /\ ~sched.running
    /\ sched.pc = "stopped"
    /\ \A task_id \in DOMAIN sched.log : task_id[1] = "task"
    /\ LET daily == ScheduledTask(<<"daily_stats", next_report(now)>>,
                                  next_report(now), "daily_stats", None,
                                  DefaultMaxRetries)
           retry == ScheduledTask(<<"retry_failed", now + timedelta_hours(2)>>,
                                  now + timedelta_hours(2),
                                  "retry_failed_notifications", None,
                                  DefaultMaxRetries)
       IN  /\ tasks' = SetTask(SetTask(tasks, daily), retry)
           /\ sched' = [sched EXCEPT !.running = TRUE, !.pc = "ready",
                                     !.log = Logged(Logged(@, daily), retry)]
    /\ UNCHANGED <<order_vars, notifications, feedback, last_run>>

\* stop()
stop ==
    /\ sched.running
    /\ sched' = [sched EXCEPT !.running = FALSE]
    /\ UNCHANGED <<order_vars, notifications, feedback, tasks, last_run>>

\* schedule_task(task_id, execute_at, task_type, payload, max_retries) with a
\* task id that has not been used
schedule_task(execute_at, task_type, max_retries) ==
    /\ sched.next_id <= MaxTasks
    /\ LET task == ScheduledTask(<<"task", sched.next_id>>, execute_at, task_type,
                                 None, max_retries)
       IN  /\ tasks' = SetTask(tasks, task)
           /\ sched' = [sched EXCEPT !.next_id = @ + 1, !.log = Logged(@, task)]
    /\ UNCHANGED <<order_vars, notifications, feedback, last_run>>

\* the task has been scheduled, has not gone, and its handler never started
NotYetFired(task_id) ==
    /\ sched.log[task_id].invoked = 0
    /\ \/ task_id \in TaskIds(tasks)
       \/ task_id \in TaskIds(sched.due)

\* cancel_task(task_id)
cancel_task(task_id) ==
    /\ task_id \in TaskIds(tasks) \cup TaskIds(sched.due)
    /\ tasks' = IF task_id \in TaskIds(tasks) THEN DelTask(tasks, task_id) ELSE tasks
    /\ sched' = [sched EXCEPT !.log[task_id].cancelled = @ \/ NotYetFired(task_id)]
    /\ UNCHANGED <<order_vars, notifications, feedback, last_run>>

\* _scheduler_loop, line 70, and _process_due_tasks, lines 80-91: the due
\* tasks leave the registry in its order, then the first handler is called
_process_due_tasks ==
    /\ sched.pc = "ready"
    /\ IF ~sched.running
       THEN /\ sched' = [sched EXCEPT !.pc = "stopped"]
            /\ UNCHANGED tasks
       ELSE LET IsDue(task) == task.execute_at <= now
                NotDue(task) == ~IsDue(task)
                due_tasks == SelectSeq(tasks, IsDue)
            IN  /\ tasks' = SelectSeq(tasks, NotDue)
                /\ sched' = StartNext([sched EXCEPT !.due = due_tasks,
                                                    !.collected = TaskIds(due_tasks),
                                                    !.executed = {},
                                                    !.ticked = now])
    /\ UNCHANGED <<order_vars, notifications, feedback, last_run>>

\* the awaited handler returns or raises, _execute_task finishes, and the
\* loop goes on to the next due task; an exception that left _execute_task
\* would end the tick at line 74
handler_returns(db_ok, failing) ==
    /\ sched.pc = "handler"
    /\ LET task == sched.current
           h == handler(task, notifications, RatedOrders, db_ok, failing, now)
           e == _execute_task(tasks, task, h.raises, now)
           fate == IF ~h.raises THEN "done"
                   ELSE IF task.task_id \in TaskIds(e.tasks) THEN "retrying"
                   ELSE "dropped"
           s1 == [sched EXCEPT !.log[task.task_id].failed =
                                    IF h.raises THEN @ + 1 ELSE @,
                               !.log[task.task_id].fate = fate,
                               !.current = NoTask]
       IN  /\ notifications' = h.table
           /\ tasks' = e.tasks
           /\ sched' = IF e.propagates
                       THEN [s1 EXCEPT !.pc = "sleep", !.sleep = 2, !.due = <<>>]
                       ELSE StartNext(s1)
    /\ UNCHANGED <<order_vars, feedback, last_run>>

\* _process_database_notifications, then line 73
_process_database_notifications(failing) ==
    /\ sched.pc = "drain"
    /\ notifications' = process_scheduled_notifications(notifications, failing, now).table
    /\ sched' = [sched EXCEPT !.pc = "sleep", !.sleep = 1, !.drained = now]
    /\ UNCHANGED <<order_vars, feedback, tasks, last_run>>

\* asyncio.sleep(30), or asyncio.sleep(60) after an error, is over
wake ==
    /\ sched.pc = "sleep"
    /\ now + sched.sleep <= MaxClock
    /\ now' = now + sched.sleep
    /\ sched' = [sched EXCEPT !.pc = "ready"]
    /\ UNCHANGED <<orders, history, payments, hs, notifications, feedback, tasks,
                   last_run>>

TaskTypes == {"send_notification", "retry_failed_notifications", "unknown"}

RetryLimits == {0, 1, DefaultMaxRetries}

SchedulerNext ==
    \/ start
    \/ stop
    \/ \E execute_at \in {now, now + 1}, task_type \in TaskTypes,
          max_retries \in RetryLimits :
            schedule_task(execute_at, task_type, max_retries)
    \/ \E n \in 1 .. MaxTasks : cancel_task(<<"task", n>>)
    \/ _process_due_tasks
    \/ \E db_ok \in BOOLEAN, failing \in SUBSET (DOMAIN notifications) :
            handler_returns(db_ok, failing)
    \/ \E failing \in SUBSET (DOMAIN notifications) :
            _process_database_notifications(failing)
    \/ wake

\* no background run has reported yet
NoRun == [task |-> "none"]

\* ------------------------------------------------------- specification
Init ==
    /\ now = 0
    /\ orders = <<>>
    /\ history = <<>>
    /\ payments = <<>>
    /\ hs = [h \in Handlers |-> IdleHandler]
    /\ notifications = <<>>
    /\ feedback = <<>>
    /\ tasks = <<>>
    /\ sched = NewScheduler
    /\ last_run = NoRun

Batches == UNION {[1 .. n -> RequestIds] : n \in 1 .. MaxBatch}

\* one worker serves the requests one after the other; payments, refunds,
\* priority changes and new orders arrive at any time
Next ==
    \/ \E pm \in PaymentMethods : create_order(pm)
    \/ \E i \in RequestIds, s \in OrderStatus : update_order_status("h1", i, s)
    \/ \E i \in RequestIds, c \in CancelInputs : cancel_order("h1", i, c[1], c[2])
    \/ \E ids \in Batches, s \in OrderStatus : bulk_transition_orders("h1", ids, s)
    \/ BulkNext("h1")
    \/ ReadLast("h1")
    \/ \E delivered \in BOOLEAN, hooks_ok \in BOOLEAN, d \in TickSteps :
          CommitOk("h1", delivered, hooks_ok, d)
    \/ CommitFail("h1")
    \/ process_automatic_transitions("h1")
    \/ Finish("h1")
    \/ \E i \in RequestIds : create_payment(i)
    \/ \E i \in RequestIds : process_successful_payment(i)
    \/ \E i \in RequestIds : process_failed_payment(i)
    \/ \E i \in RequestIds, a \in RefundAmounts, d \in TickSteps : process_refund(i, a, d)
    \/ \E i \in RequestIds, p \in PriorityInputs, d \in TickSteps :
          update_order_priority(i, p, d)

Spec == Init /\ [][Next]_vars

\* two workers serve status updates at the same time
ConcurrentNext ==
    \/ \E pm \in PaymentMethods : create_order(pm)
    \/ \E h \in Handlers, i \in RequestIds, s \in OrderStatus :
          update_order_status(h, i, s)
    \/ \E h \in Handlers : ReadLast(h)
    \/ \E h \in Handlers, d \in TickSteps : CommitOk(h, TRUE, TRUE, d)
    \/ \E h \in Handlers : Finish(h)

ConcurrentSpec == Init /\ [][ConcurrentNext]_vars

\* the scheduler with its loop, and the callers that schedule and cancel
\* tasks
SchedulerSpec == Init /\ [][SchedulerNext]_vars

\* ------------------------------------------------- the fixed schedules
\* the ticks a started scheduler is followed for: a little more than the
\* two hours after which the first retry sweep is due
MaxUptime == 245

\* asyncio.sleep(30), or asyncio.sleep(60) after an error, is over, in a run
\* followed up to tick `limit`
wake_within(limit) ==
    /\ sched.pc = "sleep"
    /\ now + sched.sleep <= limit
    /\ now' = now + sched.sleep
    /\ sched' = [sched EXCEPT !.pc = "ready"]
    /\ UNCHANGED <<orders, history, payments, hs, notifications, feedback, tasks,
                   last_run>>

UptimeNext ==
    \/ start
    \/ stop
    \/ _process_due_tasks
    \/ \E db_ok \in BOOLEAN, failing \in SUBSET (DOMAIN notifications) :
            handler_returns(db_ok, failing)
    \/ \E failing \in SUBSET (DOMAIN notifications) :
            _process_database_notifications(failing)
    \/ wake_within(MaxUptime)

\* the scheduler with the two tasks start() schedules, and no other caller
UptimeSpec == Init /\ [][UptimeNext]_vars

\* ---------------------------------------------- automation rule checks
\* the clock readings of a rule check: the confirmation time, and 4.5, 5 and
\* 5.5 minutes after it
RuleTimes == {0, 9, 10, 11}

RuleMethods == {"card", "cash", "Cash"}

PaymentStates == {"none", "pending", "success", "failed"}

\* the order rows a rule check may look at: an order that has been confirmed
\* carries status_confirmed_at, an order that is pending or failed does not
RuleSnapshots ==
    {[NewOrder(0, pm) EXCEPT !.status = s, !.priority = p, !.status_confirmed_at = c] :
        <<pm, s, p, c>> \in
            {x \in RuleMethods \X OrderStatus \X OrderPriority \X {None, 0} :
                /\ x[2] \in {"confirmed", "preparing", "ready", "completed"} => x[4] # None
                /\ x[2] \in {"pending", "failed"} => x[4] = None}}

RuleInit ==
    /\ now \in RuleTimes
    /\ orders \in {<<o>> : o \in RuleSnapshots}
    /\ payments \in {<<ps>> : ps \in PaymentStates}
    /\ history = <<>>
    /\ hs = [h \in Handlers |-> IdleHandler]
    /\ notifications = <<>>
    /\ feedback = <<>>
    /\ tasks = <<>>
    /\ sched = NewScheduler
    /\ last_run = NoRun

\* process_automatic_transitions, lines 484-487: the rule of the order's
\* status is looked up and applied
check_auto_transition(i) ==
    /\ last_run = NoRun
    /\ last_run' = [task |-> "auto_transition",
                    target |-> auto_transition_rules(orders[i], payments[i], now)]
    /\ UNCHANGED <<order_vars, notifications, feedback, tasks, sched>>

RuleNext == \E i \in DOMAIN orders : check_auto_transition(i)

RuleSpec == RuleInit /\ [][RuleNext]_vars

\* ------------------------------------------------ completion timing
\* the order rows a transition into Completed may find: a Ready order has
\* never been completed; an order completed 30 or 60 seconds after its
\* creation carries a total_duration of 0 or 1, and delivery_completed_at
\* when it is a delivery
TimingSnapshots ==
    LET Ready(c, dt) ==
            [NewOrder(c, "card") EXCEPT
                !.status = "ready", !.delivery_type = dt,
                !.status_confirmed_at = c, !.status_preparing_at = c,
                !.status_ready_at = c,
                !.estimated_preparation_time = default_preparation_times["normal"],
                !.estimated_delivery_time =
                    c + timedelta_minutes(default_preparation_times["normal"]),
                !.actual_preparation_start = c, !.actual_preparation_end = c,
                !.preparation_duration = 0]
    IN  {Ready(c, dt) : c \in {0, 1}, dt \in {"delivery", "pickup"}}
        \cup {[Ready(c, dt) EXCEPT
                   !.status = "completed",
                   !.status_completed_at = c + td + 1,
                   !.total_duration = td,
                   !.delivery_completed_at =
                        IF dt = "delivery" THEN c + td + 1 ELSE None] :
                <<c, dt, td>> \in {0, 1} \X {"delivery", "pickup"} \X {0, 1}}

TimingInit ==
    /\ now \in 3 .. 10
    /\ orders \in {<<o>> : o \in TimingSnapshots}
    /\ payments = <<"success">>
    /\ history = <<>>
    /\ hs = [h \in Handlers |-> IdleHandler]
    /\ notifications = <<>>
    /\ feedback = <<>>
    /\ tasks = <<>>
    /\ sched = NewScheduler
    /\ last_run = NoRun

\* transition_status, lines 137-139, for new_status = COMPLETED
enter_completed(i) ==
    /\ last_run = NoRun
    /\ orders' = [orders EXCEPT ![i] =
                    _update_status_timestamps([@ EXCEPT !.status = "completed"],
                                              "completed", TRUE, now)]
    /\ last_run' = [task |-> "transition_status", order_id |-> i, at |-> now]
    /\ UNCHANGED <<now, history, payments, hs, notifications, feedback, tasks, sched>>

TimingNext == \E i \in DOMAIN orders : enter_completed(i)

TimingSpec == TimingInit /\ [][TimingNext]_vars

\* ------------------------------------------- notification dispatching
MaxNotifications == 2

\* the limits the sweeps are called with
SweepLimits == {DefaultMaxRetries - 1, DefaultMaxRetries}

\* the rows of the notification table the service is opened on: a row that
\* was never attempted is pending or scheduled, and a failed row has counted
\* each of its attempts
NotificationRows ==
    {NewNotification("order_confirmed", 1, None)}
    \cup {NewNotification("feedback_request", 1, at) : at \in 0 .. MaxTime}
    \cup {[NewNotification("order_confirmed", 1, None)
               EXCEPT !.status = "failed", !.retry_count = k, !.attempts = k] :
            k \in 1 .. DefaultMaxRetries - 1}

NotificationInit ==
    /\ now = 0
    /\ orders = <<>>
    /\ history = <<>>
    /\ payments = <<>>
    /\ hs = [h \in Handlers |-> IdleHandler]
    /\ notifications \in UNION {[1 .. n -> NotificationRows] : n \in 0 .. MaxNotifications}
    /\ feedback = <<>>
    /\ tasks = <<>>
    /\ sched = NewScheduler
    /\ last_run = NoRun

\* a caller of <service>.send_notification that passes what the signature of
\* line 31 names: the type, the order and, when there is one, schedule_for
Send(notification_type, order_id, schedule_for, bot_ok) ==
    /\ Len(notifications) < MaxNotifications
    /\ LET r == NotificationService_send_notification(
                    notifications,
                    {"telegram_id", "message", "notification_type", "order_id"}
                        \cup (IF schedule_for # None THEN {"schedule_for"} ELSE {}),
                    notification_type, order_id, schedule_for, bot_ok, now)
       IN  /\ notifications' = r.table
           /\ last_run' = [task |-> "send_notification", raises |-> r.raises,
                           schedule_for |-> schedule_for, at |-> now]
    /\ UNCHANGED <<order_vars, feedback, tasks, sched>>

\* the drain of the scheduled notifications
DrainScheduled(failing) ==
    /\ LET r == process_scheduled_notifications(notifications, failing, now)
       IN  /\ notifications' = r.table
           /\ last_run' = [task |-> "process_scheduled_notifications",
                           count |-> r.count, at |-> now]
    /\ UNCHANGED <<order_vars, feedback, tasks, sched>>

\* the sweep over the failed notifications
RetryFailed(max_retries, failing) ==
    /\ LET r == retry_failed_notifications(notifications, max_retries, failing, now)
       IN  /\ notifications' = r.table
           /\ last_run' = [task |-> "retry_failed_notifications",
                           max_retries |-> max_retries,
                           count |-> r.count, at |-> now]
    /\ UNCHANGED <<order_vars, feedback, tasks, sched>>

\* 30 seconds pass
Tick ==
    /\ now < MaxTime
    /\ now' = now + 1
    /\ UNCHANGED <<orders, history, payments, hs, background_vars>>

NotificationNext ==
    \/ \E schedule_for \in {None} \cup (0 .. MaxTime), bot_ok \in BOOLEAN :
            Send("feedback_request", 1, schedule_for, bot_ok)
    \/ \E failing \in SUBSET (DOMAIN notifications) : DrainScheduled(failing)
    \/ \E max_retries \in SweepLimits, failing \in SUBSET (DOMAIN notifications) :
            RetryFailed(max_retries, failing)
    \/ Tick

NotificationSpec == NotificationInit /\ [][NotificationNext]_vars

\* -------------------------------------------------- overdue monitoring
\* Order.get_automation_flag
get_automation_flag(flags, flag, default) ==
    IF \E p \in flags : p[1] = flag
    THEN (CHOOSE p \in flags : p[1] = flag)[2]
    ELSE default

\* OrderWorkflow.get_overdue_orders(threshold_minutes) at time t: the ids of
\* the orders selected, by created_at
get_overdue_orders(threshold_minutes, t) ==
    LET threshold_time == t - timedelta_minutes(threshold_minutes)
        Overdue(i) ==
            /\ orders[i].status \in {"confirmed", "preparing", "ready"}
            /\ \/ /\ orders[i].estimated_delivery_time # None
                  /\ orders[i].estimated_delivery_time < t
               \/ orders[i].created_at < threshold_time
    IN  SelectSeq([i \in DOMAIN orders |-> i], Overdue)

\* the names tasks/order_automation.py binds: its imports of lines 3-11,
\* its logger and its class
order_automation_names ==
    {"asyncio", "logging", "datetime", "timedelta", "Dict", "Any",
     "get_async_session", "OrderService", "OrderWorkflow", "NotificationService",
     "logger", "OrderAutomationTasks"}

\* process_overdue_orders, lines 72-109, for one overdue order at time t:
\* the order and the notification table after it, whether an alert was
\* counted, and whether an error was recorded.  Evaluating the arguments of
\* the call at lines 91-98 reads the names settings, NotificationType and
\* NotificationTarget and the enum member ADMIN_OVERDUE_ORDER.
OverdueAlert(order, order_id, table, bot_ok, t) ==
    LET failed == [order |-> order, table |-> table, sent |-> FALSE, error |-> TRUE]
    IN  IF get_automation_flag(order.automation_flags, "overdue_notification_sent", FALSE)
        THEN [order |-> order, table |-> table, sent |-> FALSE, error |-> FALSE]
        ELSE IF ~({"settings", "NotificationType", "NotificationTarget"}
                      \subseteq order_automation_names)
        THEN failed
        ELSE IF "admin_overdue_order" \notin NotificationType
        THEN failed
        ELSE LET r == NotificationService_send_notification(
                          table,
                          {"telegram_id", "message", "notification_type",
                           "target_type", "order_id", "title"},
                          "admin_overdue_order", order_id, None, bot_ok, t)
             IN  IF r.raises
                 THEN failed
                 ELSE [order |-> [order EXCEPT !.automation_flags =
                                     set_automation_flag(@, "overdue_notification_sent",
                                                         TRUE)],
                       table |-> r.table, sent |-> TRUE, error |-> FALSE]

\* the loop of line 72 over the overdue orders
RECURSIVE AlertAll(_, _, _, _)
AlertAll(ids, st, bot_ok, t) ==
    IF ids = <<>>
    THEN st
    ELSE LET i == Head(ids)
             r == OverdueAlert(st.orders[i], i, st.table, bot_ok, t)
         IN  AlertAll(Tail(ids),
                      [orders |-> [st.orders EXCEPT ![i] = r.order],
                       table |-> r.table,
                       sent |-> st.sent + (IF r.sent THEN 1 ELSE 0),
                       errors |-> st.errors + (IF r.error THEN 1 ELSE 0)],
                      bot_ok, t)

\* OrderAutomationTasks.process_overdue_orders(threshold_minutes)
process_overdue_orders(threshold_minutes, bot_ok) ==
    /\ LET overdue_orders == get_overdue_orders(threshold_minutes, now)
           r == AlertAll(overdue_orders,
                         [orders |-> orders, table |-> notifications,
                          sent |-> 0, errors |-> 0],
                         bot_ok, now)
       IN  /\ orders' = r.orders
           /\ notifications' = r.table
           /\ last_run' = [task |-> "process_overdue_orders",
                           overdue_orders_found |-> Len(overdue_orders),
                           notifications_sent |-> r.sent,
                           errors |-> r.errors,
                           at |-> now]
    /\ UNCHANGED <<now, history, payments, hs, feedback, tasks, sched>>

\* the thresholds the monitoring is run with: one minute, and the default
OverdueThresholds == {1, 60}

MonitorNext ==
    \/ \E pm \in PaymentMethods : create_order(pm)
    \/ \E i \in RequestIds : create_payment(i)
    \/ \E i \in RequestIds : process_successful_payment(i)
    \/ \E i \in RequestIds : process_failed_payment(i)
    \/ \E i \in RequestIds, p \in PriorityInputs, d \in TickSteps :
          update_order_priority(i, p, d)
    \/ Tick
    \/ \E threshold_minutes \in OverdueThresholds, bot_ok \in BOOLEAN :
          process_overdue_orders(threshold_minutes, bot_ok)

\* the overdue monitoring next to the creation and the payment of orders
MonitorSpec == Init /\ [][MonitorNext]_vars

\* ----------------------------------------------------- feedback ratings
\* the ratings a customer gives, at both ends of the 1-5 range
FeedbackStars == {1, 5}

\* FeedbackRating(order_id=..., rating=...)
FeedbackRating(order_id, rating) == [order_id |-> order_id, rating |-> rating]

\* faulty variant: the table takes a second rating of an order
CommitWithoutUnique(table, row) == [raises |-> FALSE, table |-> Append(table, row)]

\* the commit of a new FeedbackRating row: order_id is a unique column
commit_feedback(table, row) ==
    IF \E i \in DOMAIN table : table[i].order_id = row.order_id
    THEN [raises |-> TRUE, table |-> table]
    ELSE [raises |-> FALSE, table |-> Append(table, row)]

\* save_feedback_rating, lines 512-529: the check for an existing rating and
\* the row added to the session
save_feedback_rating(h, order_id, rating) ==
    /\ Dispatch(h)
    /\ LET h0 == [hs[h] EXCEPT !.kind = "feedback", !.order_id = order_id]
       IN  hs' = [hs EXCEPT ![h] =
                    IF order_id \in RatedOrders
                    THEN Return(h0, "None", "exists")
                    ELSE [h0 EXCEPT !.pc = "insert",
                                    !.new = <<FeedbackRating(order_id, rating)>>]]
    /\ UNCHANGED <<now, orders, history, payments, background_vars>>

\* save_feedback_rating, lines 530-564: the commit, and the thank-you message
\* when the user is found; an exception is logged, rolled back and answered
\* with None
save_feedback_thanks(h, user_found, bot_ok) ==
    /\ hs[h].pc = "insert"
    /\ LET hr == hs[h]
           c == commit_feedback(feedback, hr.new[1])
           r == NotificationService_send_notification(
                    notifications,
                    {"telegram_id", "message", "notification_type", "target_type",
                     "order_id", "user_id", "title"},
                    "feedback_request", hr.order_id, None, bot_ok, now)
       IN  IF c.raises
           THEN /\ hs' = [hs EXCEPT ![h] = Return(RolledBack(hr), "None", "IntegrityError")]
                /\ UNCHANGED <<feedback, notifications>>
           ELSE /\ feedback' = c.table
                /\ notifications' = IF user_found THEN r.table ELSE notifications
                /\ hs' = [hs EXCEPT ![h] =
                            IF user_found /\ r.raises
                            THEN Return(Committed(hr), "None", "TypeError")
                            ELSE Return(Committed(hr), "feedback", "none")]
    /\ UNCHANGED <<now, orders, history, payments, tasks, sched, last_run>>

FeedbackNext ==
    \/ \E pm \in PaymentMethods : create_order(pm)
    \/ \E h \in Handlers, i \in DOMAIN orders, rating \in FeedbackStars :
          save_feedback_rating(h, i, rating)
    \/ \E h \in Handlers, user_found \in BOOLEAN, bot_ok \in BOOLEAN :
          save_feedback_thanks(h, user_found, bot_ok)
    \/ \E h \in Handlers : Finish(h)
    \/ Tick

\* two workers take the ratings customers give to their orders
FeedbackSpec == Init /\ [][FeedbackNext]_vars

\* -------------------------------------------- scheduler loops as tasks
\* the number of loops asyncio.create_task may be called for
MaxLoops == 2

\* asyncio.create_task(self._scheduler_loop()): the position and the locals
\* of one run of the loop; `stopped`: stop() has been called since
NewLoop ==
    [pc |-> "ready", due |-> <<>>, current |-> NoTask, collected |-> {},
     executed |-> {}, wake_at |-> None, stopped |-> FALSE]

\* the scheduler object after construction, and no loop on the event loop
LifecycleInit ==
    /\ now = 0
    /\ orders = <<>>
    /\ history = <<>>
    /\ payments = <<>>
    /\ hs = [h \in Handlers |-> IdleHandler]
    /\ notifications = <<>>
    /\ feedback = <<>>
    /\ tasks = <<>>
    /\ sched = [loops |-> <<>>] @@ NewScheduler
    /\ last_run = NoRun

\* start(): returns at once when running is set; otherwise sets it, creates
\* a loop and schedules the two fixed tasks
scheduler_start ==
    /\ IF sched.running
       THEN UNCHANGED <<sched, tasks>>
       ELSE /\ Len(sched.loops) < MaxLoops
            /\ LET daily == ScheduledTask(<<"daily_stats", next_report(now)>>,
                                          next_report(now), "daily_stats", None,
                                          DefaultMaxRetries)
                   retry == ScheduledTask(<<"retry_failed", now + timedelta_hours(2)>>,
                                          now + timedelta_hours(2),
                                          "retry_failed_notifications", None,
                                          DefaultMaxRetries)
               IN  /\ tasks' = SetTask(SetTask(tasks, daily), retry)
                   /\ sched' = [sched EXCEPT !.running = TRUE,
                                             !.loops = Append(@, NewLoop),
                                             !.log = Logged(Logged(@, daily), retry)]
    /\ last_run' = [task |-> "start", was_running |-> sched.running]
    /\ UNCHANGED <<order_vars, notifications, feedback>>

\* stop(): clears running; the loops stay on the event loop
scheduler_stop ==
    /\ sched' = [sched EXCEPT !.running = FALSE,
                              !.loops = [k \in DOMAIN @ |-> [@[k] EXCEPT !.stopped = TRUE]]]
    /\ last_run' = [task |-> "stop", was_running |-> sched.running]
    /\ UNCHANGED <<order_vars, notifications, feedback, tasks>>

\* faulty variant: the due tasks stay in the registry
CollectKeepsDue(registry, t) ==
    LET IsDue(task) == task.execute_at <= t
    IN  [due |-> SelectSeq(registry, IsDue), tasks |-> registry]

\* _process_due_tasks, lines 80-87, at time t: the due tasks, and the
\* registry without them
collect_due_tasks(registry, t) ==
    LET IsDue(task) == task.execute_at <= t
        NotDue(task) == ~IsDue(task)
    IN  [due |-> SelectSeq(registry, IsDue), tasks |-> SelectSeq(registry, NotDue)]

\* the loop record of a position StartNext has computed
LoopOf(s) == [f \in DOMAIN NewLoop |-> s[f]]

\* loop k at line 70: it ends when running is clear, and otherwise collects
\* the due tasks and calls the first handler
loop_tick(k) ==
    /\ sched.loops[k].pc = "ready"
    /\ IF ~sched.running
       THEN /\ sched' = [sched EXCEPT !.loops[k].pc = "ended"]
            /\ UNCHANGED tasks
       ELSE LET c == collect_due_tasks(tasks, now)
                s == StartNext([log |-> sched.log] @@
                               [sched.loops[k] EXCEPT !.due = c.due,
                                                      !.collected = TaskIds(c.due),
                                                      !.executed = {}])
            IN  /\ tasks' = c.tasks
                /\ sched' = [sched EXCEPT !.loops[k] = LoopOf(s), !.log = s.log]
    /\ UNCHANGED <<order_vars, notifications, feedback, last_run>>

\* the handler awaited by loop k returns or raises, and _execute_task
\* finishes
loop_handler_returns(k, db_ok, failing) ==
    /\ sched.loops[k].pc = "handler"
    /\ LET task == sched.loops[k].current
           h == handler(task, notifications, RatedOrders, db_ok, failing, now)
           e == _execute_task(tasks, task, h.raises, now)
           fate == IF ~h.raises THEN "done"
                   ELSE IF task.task_id \in TaskIds(e.tasks) THEN "retrying"
                   ELSE "dropped"
           log == [sched.log EXCEPT ![task.task_id].failed = IF h.raises THEN @ + 1 ELSE @,
                                    ![task.task_id].fate = fate]
           s == StartNext([log |-> log] @@ [sched.loops[k] EXCEPT !.current = NoTask])
       IN  /\ notifications' = h.table
           /\ tasks' = e.tasks
           /\ sched' = [sched EXCEPT !.loops[k] = LoopOf(s), !.log = s.log]
    /\ UNCHANGED <<order_vars, feedback, last_run>>

\* _process_database_notifications in loop k, then line 73
loop_drain(k, failing) ==
    /\ sched.loops[k].pc = "drain"
    /\ notifications' = process_scheduled_notifications(notifications, failing, now).table
    /\ sched' = [sched EXCEPT !.loops[k].pc = "sleep", !.loops[k].wake_at = now + 1]
    /\ UNCHANGED <<order_vars, feedback, tasks, last_run>>

\* asyncio.sleep(30) of loop k is over
loop_wake(k) ==
    /\ sched.loops[k].pc = "sleep"
    /\ sched.loops[k].wake_at <= now
    /\ sched' = [sched EXCEPT !.loops[k].pc = "ready"]
    /\ UNCHANGED <<order_vars, notifications, feedback, tasks, last_run>>

LifecycleNext ==
    \/ scheduler_start
    \/ scheduler_stop
    \/ \E execute_at \in {now, now + 1} :
            schedule_task(execute_at, "retry_failed_notifications", 1)
    \/ \E n \in 1 .. MaxTasks : cancel_task(<<"task", n>>)
    \/ \E k \in DOMAIN sched.loops : loop_tick(k)
    \/ \E k \in DOMAIN sched.loops, db_ok \in BOOLEAN,
          failing \in SUBSET (DOMAIN notifications) :
            loop_handler_returns(k, db_ok, failing)
    \/ \E k \in DOMAIN sched.loops, failing \in SUBSET (DOMAIN notifications) :
            loop_drain(k, failing)
    \/ \E k \in DOMAIN sched.loops : loop_wake(k)
    \/ Tick

\* the scheduler object with the loops its callers create, any caller being
\* free to call start() and stop()
LifecycleSpec == LifecycleInit /\ [][LifecycleNext]_vars

\* ------------------------------------------------ validated lifecycle
\* the number of transition_status calls on one order
MaxWalk == 8

\* Order.is_active
is_active(order) == order.status \in {"pending", "confirmed", "preparing", "ready"}

\* one order as create_order leaves it, and an empty ledger
WalkInit ==
    /\ now = 0
    /\ orders = <<NewOrder(0, "card")>>
    /\ history = <<>>
    /\ payments = <<"pending">>
    /\ hs = [h \in Handlers |-> IdleHandler]
    /\ notifications = <<>>
    /\ feedback = <<>>
    /\ tasks = <<>>
    /\ sched = NewScheduler
    /\ last_run = NoRun

\* transition_status(order, new_status) with validate=True, run to its end
\* by one session, 30 seconds after the call before it
transition_status(i, new_status, delivered) ==
    /\ now < MaxWalk
    /\ LET order == orders[i]
           old_status == order.status
           last_history == _get_last_status_history(i)
           duration == IF old_status # new_status /\ last_history # NoHistory
                       THEN int_div_60(total_seconds(now + 1 - last_history.changed_at))
                       ELSE None
           record == [create_status_change(i, old_status, new_status, "manual_admin", None)
                        EXCEPT !.duration_from_previous = duration,
                               !.changed_at = now + 1]
       IN  IF ~_validate_transition(old_status, new_status)
           THEN /\ last_run' = [task |-> "transition_status", order_id |-> i,
                                error |-> "StatusTransitionError"]
                /\ UNCHANGED <<orders, history, notifications>>
           ELSE /\ orders' = [orders EXCEPT ![i] =
                                _update_status_timestamps(
                                    [order EXCEPT !.status = new_status],
                                    new_status, TRUE, now + 1)]
                /\ history' = Append(history, record)
                /\ notifications' = _send_status_change_notifications(
                                        notifications, RatedOrders, i, old_status,
                                        new_status, new_status, delivered, now + 1).table
                /\ last_run' = [task |-> "transition_status", order_id |-> i,
                                error |-> None]
    /\ now' = now + 1
    /\ UNCHANGED <<payments, hs, feedback, tasks, sched>>

WalkNext ==
    \E i \in DOMAIN orders, new_status \in OrderStatus, delivered \in BOOLEAN :
        transition_status(i, new_status, delivered)

\* one order driven through transition_status only
WalkSpec == WalkInit /\ [][WalkNext]_vars

\* ------------------------------------------------------------- properties
\* the transition table as the specification states it
StatedEdges ==
    {<<"pending", "confirmed">>, <<"pending", "cancelled">>, <<"pending", "failed">>,
     <<"confirmed", "preparing">>, <<"confirmed", "cancelled">>,
     <<"preparing", "ready">>, <<"preparing", "cancelled">>,
     <<"ready", "completed">>, <<"ready", "cancelled">>,
     <<"completed", "refunded">>, <<"cancelled", "refunded">>,
     <<"failed", "pending">>, <<"failed", "cancelled">>}

Last(s) == s[Len(s)]

\* C1: a validated transition request (from, to) on a stored order passes the
\* validator iff from = to or (from, to) is an edge of the stated table; every
\* other request ends with StatusTransitionError, and then the stored order,
\* the ledger and the session are left as they were.
C1_TransitionTableCompleteness ==
    [][\A i \in RequestIds, s \in OrderStatus :
          (update_order_status("h1", i, s) /\ i \in DOMAIN orders) =>
              LET from == orders[i].status
                  allowed == from = s \/ <<from, s>> \in StatedEdges
                  after == hs'["h1"]
              IN  /\ allowed <=> after.pc \in {"read", "commit"}
                  /\ ~allowed <=> (after.pc = "done" /\ after.ret = "raise"
                                   /\ after.err = "StatusTransitionError")
                  /\ ~allowed => /\ orders' = orders
                                 /\ history' = history
                                 /\ after.dirty = {}
                                 /\ after.new = <<>>]_vars

\* C1 witness: a request on a refunded order has been rejected
C1_Witness ==
    /\ hs["h1"].pc = "done"
    /\ hs["h1"].kind = "update"
    /\ hs["h1"].err = "StatusTransitionError"
    /\ Len(orders) >= 1
    /\ orders[1].status = "refunded"

\* C2: for every order with at least one history record, the records are
\* strictly increasing by changed_at and the last record's to_status is the
\* order's current status.
C2_HistoryOrdering ==
    \A i \in DOMAIN orders :
        LET tl == get_order_timeline(i)
        IN  tl # <<>> =>
              /\ \A k \in 1 .. (Len(tl) - 1) : tl[k].changed_at < tl[k + 1].changed_at
              /\ Last(tl).to_status = orders[i].status

\* C3: a commit of transition_status that fails leaves the stored orders and
\* the ledger as they were, and whatever the same session does afterwards
\* never brings the aborted change in: a worker's step adds at most the one
\* history row of the call it is in, and touches no other order.
C3_FailedCommitAborts ==
    [][/\ CommitFail("h1") => (orders' = orders /\ history' = history)
       /\ hs'["h1"] # hs["h1"] =>
             LET hr == hs["h1"]
             IN  /\ history' # history =>
                       /\ Len(history') = Len(history) + 1
                       /\ SubSeq(history', 1, Len(history)) = history
                       /\ Last(history').order_id = hr.order_id
                       /\ Last(history').from_status = hr.old_status
                       /\ Last(history').to_status = hr.new_status
                 /\ \A i \in DOMAIN orders :
                       orders'[i] # orders[i] => (i = hr.order_id /\ history' # history)
                 /\ ~hr.active => (orders' = orders /\ history' = history)]_vars

\* C3 witness: the first item of a batch failed at its commit and the batch
\* went on to its next item on the same session
C3_Witness ==
    /\ hs["h1"].pc = "done"
    /\ hs["h1"].kind = "bulk"
    /\ Len(hs["h1"].results.failed) = 2
    /\ hs["h1"].results.failed[1].error = "commit_error"
    /\ hs["h1"].results.failed[2].error = "PendingRollbackError"
    /\ orders[1].status = "pending"
    /\ history = <<>>

\* ids is an interleaving of a and b that keeps the order of both
RECURSIVE Interleaving(_, _, _)
Interleaving(ids, a, b) ==
    IF ids = <<>>
    THEN a = <<>> /\ b = <<>>
    ELSE \/ a # <<>> /\ Head(a) = Head(ids) /\ Interleaving(Tail(ids), Tail(a), b)
         \/ b # <<>> /\ Head(b) = Head(ids) /\ Interleaving(Tail(ids), a, Tail(b))

IdsOf(entries) == [k \in 1 .. Len(entries) |-> entries[k].order_id]

\* C4: a bulk request handles every id of order_ids in order and never ends
\* early: when it returns, every id is in exactly one of successful / failed,
\* success_count + failure_count = total_processed = len(order_ids); the step
\* that reports an id as failed leaves the stored orders and the ledger as
\* they were, and the step that reports an id as successful leaves that order
\* stored with status new_status.
C4_BulkAccounting ==
    [][LET hr == hs["h1"]
           after == hs'["h1"]
           r == hr.results
           r1 == after.results
       IN  (after # hr /\ after.kind = "bulk") =>
              /\ after.pc = "done" =>
                    /\ after.ret = "results"
                    /\ r1.total_processed = Len(after.order_ids)
                    /\ r1.success_count + r1.failure_count = r1.total_processed
                    /\ r1.success_count = Len(r1.successful)
                    /\ r1.failure_count = Len(r1.failed)
                    /\ Interleaving(after.order_ids, IdsOf(r1.successful), IdsOf(r1.failed))
              /\ Len(r1.failed) > Len(r.failed) =>
                    (orders' = orders /\ history' = history)
              /\ Len(r1.successful) > Len(r.successful) =>
                    /\ Last(r1.successful).new_status = hr.new_status
                    /\ Last(r1.successful).order_id = hr.order_id
                    /\ orders'[hr.order_id].status = hr.new_status
                    /\ Len(history') = Len(history) + 1]_vars

\* C5: calls of transition_status on one order are serialized: in the ledger
\* every record follows from the record before it, that is, its from_status
\* is that record's to_status, its target was valid from that status, and the
\* duration of a status change is the time since that record.
C5_Serialized ==
    \A i \in DOMAIN orders :
        LET tl == get_order_timeline(i)
        IN  \A k \in 1 .. (Len(tl) - 1) :
                /\ tl[k + 1].from_status = tl[k].to_status
                /\ _validate_transition(tl[k].to_status, tl[k + 1].to_status)
                /\ tl[k + 1].from_status # tl[k + 1].to_status =>
                      tl[k + 1].duration_from_previous =
                          int_div_60(total_seconds(tl[k + 1].changed_at - tl[k].changed_at))

\* C6: an order in Refunded never changes status again, and every order
\* that enters Refunded comes directly from Completed or Cancelled.
C6_RefundedIsTerminal ==
    [][\A i \in DOMAIN orders :
          /\ orders[i].status = "refunded" => orders'[i].status = "refunded"
          /\ (orders[i].status # "refunded" /\ orders'[i].status = "refunded") =>
                orders[i].status \in {"completed", "cancelled"}]_vars

\* C7: every change of a stored status made by a caller of the workflow
\* engine is an edge of the transition table.
C7_TableIsSingleAuthority ==
    [][hs' # hs =>
          \A i \in DOMAIN orders :
              orders'[i].status # orders[i].status =>
                  <<orders[i].status, orders'[i].status>> \in StatedEdges]_vars

\* status, status timestamps and automation flags of an order row
EngineFields(order) ==
    <<order.status, order.status_pending_at, order.status_confirmed_at,
      order.status_preparing_at, order.status_ready_at, order.status_completed_at,
      order.status_cancelled_at, order.automation_flags>>

\* C8: an operation of a component other than the workflow engine leaves the
\* status, the status timestamps and the automation flags of every order as
\* they were.
C8_EngineIsSoleWriter ==
    [][hs' = hs =>
          \A i \in DOMAIN orders :
              EngineFields(orders'[i]) = EngineFields(orders[i])]_vars

\* C9: the history records of an order form a contiguous chain that is the
\* order's status sequence: the first record starts from the status the order
\* was created with, each record starts where the one before it ended, and
\* the last record ends in the current status.
C9_ContiguousChain ==
    \A i \in DOMAIN orders :
        LET tl == get_order_timeline(i)
        IN  /\ \A k \in 1 .. (Len(tl) - 1) : tl[k + 1].from_status = tl[k].to_status
            /\ tl # <<>> => tl[1].from_status = "pending"
            /\ tl # <<>> => Last(tl).to_status = orders[i].status
            /\ tl = <<>> => orders[i].status = "pending"

\* C10: when the notification or a hook fails after the commit, the call
\* still returns the order and its history record without an error, the
\* record is in the ledger and the order is stored with the new status.
C10_SideEffectFailureIsHarmless ==
    [][\A delivered \in BOOLEAN, hooks_ok \in BOOLEAN, d \in TickSteps :
          (CommitOk("h1", delivered, hooks_ok, d) /\ ~(delivered /\ hooks_ok)) =>
              LET hr == hs["h1"]
                  after == hs'["h1"]
              IN  /\ Len(history') = Len(history) + 1
                  /\ Last(history').order_id = hr.order_id
                  /\ Last(history').to_status = hr.new_status
                  /\ hr.old_status # hr.new_status =>
                        orders'[hr.order_id].status = hr.new_status
                  /\ after.err = "none"
                  /\ hr.kind = "update" =>
                        (after.ret = "order" /\ after.ret_history = Last(history'))
                  /\ hr.kind = "cancel" =>
                        (after.ret = "True" /\ after.ret_history = Last(history'))
                  /\ hr.kind = "bulk" =>
                        /\ after.results.success_count = hr.results.success_count + 1
                        /\ after.results.failure_count = hr.results.failure_count]_vars

\* C10 witness: a status update has returned its order although both the
\* notification and the hooks failed
C10_Witness ==
    /\ hs["h1"].pc = "done"
    /\ hs["h1"].ret = "order"
    /\ hs["h1"].notified = "error_logged"
    /\ hs["h1"].hooks = "error_logged"
    /\ Last(history) = hs["h1"].ret_history
    /\ orders[1].status = hs["h1"].ret_history.to_status

\* the preparation-time defaults as the specification states them, in minutes
StatedDefaults == [vip |-> 15, high |-> 25, normal |-> 35, low |-> 45]

\* C20: a transition into Confirmed sets status_confirmed_at to the time of
\* the transition, fills an unset estimated_preparation_time with the default
\* of the order's priority, keeps one that is set, and sets
\* estimated_delivery_time = status_confirmed_at + estimated_preparation_time
\* minutes; the commit stores exactly these values.
C20_ConfirmedTiming ==
    [][LET hr == hs["h1"]
           after == hs'["h1"]
       IN  /\ (hr.pc # "commit" /\ after.pc = "commit" /\ after.new_status = "confirmed") =>
                 LET before == Cur(after).loaded
                     order == Cur(after).current
                 IN  /\ order.status_confirmed_at = now
                     /\ Falsy(before.estimated_preparation_time) =>
                           order.estimated_preparation_time =
                               StatedDefaults[before.priority]
                     /\ ~Falsy(before.estimated_preparation_time) =>
                           order.estimated_preparation_time =
                               before.estimated_preparation_time
                     /\ order.estimated_delivery_time =
                           now + 2 * order.estimated_preparation_time
           /\ \A delivered \in BOOLEAN, hooks_ok \in BOOLEAN, d \in TickSteps :
                 (CommitOk("h1", delivered, hooks_ok, d) /\ hr.new_status = "confirmed") =>
                     LET order == Cur(hr).current
                         stored == orders'[hr.order_id]
                     IN  /\ stored.status_confirmed_at = order.status_confirmed_at
                         /\ stored.estimated_preparation_time =
                               order.estimated_preparation_time
                         /\ stored.estimated_delivery_time =
                               stored.status_confirmed_at
                                   + 2 * stored.estimated_preparation_time]_vars

\* C20 witness: an order confirmed as a normal order and raised to VIP has
\* entered Confirmed again and kept its estimate of 35 minutes
C20_Witness ==
    /\ hs["h1"].pc = "done"
    /\ hs["h1"].ret = "order"
    /\ hs["h1"].ret_history.from_status = "confirmed"
    /\ hs["h1"].ret_history.to_status = "confirmed"
    /\ orders[1].priority = "vip"
    /\ orders[1].estimated_preparation_time = 35
    /\ orders[1].estimated_delivery_time = orders[1].status_confirmed_at + 70
    /\ orders[1].status_confirmed_at > 0

\* the scheduled feedback requests of an order in a notification table
FeedbackRequests(table, order_id) ==
    {k \in DOMAIN table : /\ table[k].notification_type = "feedback_request"
                          /\ table[k].order_id = order_id
                          /\ table[k].status = "scheduled"}

\* C19: a successful transition of an order from another status into
\* Completed schedules exactly one feedback request for now + 1 hour when the
\* order has no feedback rating, and none when it has one.
C19_FeedbackRequestScheduled ==
    [][\A delivered \in BOOLEAN, hooks_ok \in BOOLEAN, d \in TickSteps :
          (/\ CommitOk("h1", delivered, hooks_ok, d)
           /\ hs["h1"].old_status # "completed"
           /\ hs["h1"].new_status = "completed") =>
              LET id == hs["h1"].order_id
                  before == FeedbackRequests(notifications, id)
                  after == FeedbackRequests(notifications', id)
              IN  IF id \in RatedOrders
                  THEN after = before
                  ELSE /\ Cardinality(after) = Cardinality(before) + 1
                       /\ \A k \in after \ before :
                             notifications'[k].scheduled_at = now + 120]_vars

\* an order in Pending with priority VIP whose payment has succeeded
VipPaidPending(i) ==
    /\ orders[i].status = "pending"
    /\ orders[i].priority = "vip"
    /\ payments[i] = "success"

\* C12: for a VIP order in Pending whose payment has succeeded, one run of
\* the automatic scan reports no error and at least one processed order and
\* transition, and leaves the order Confirmed with a history record
\* Pending -> Confirmed of reason Automatic.
C12_VipAutoConfirm ==
    [][\A i \in DOMAIN orders :
          (process_automatic_transitions("h1") /\ VipPaidPending(i)) =>
              LET r == hs'["h1"].auto_results
                  tl == SelectByOrder(history', i)
              IN  /\ r.errors = 0
                  /\ r.processed_orders >= 1
                  /\ r.transitions_made >= 1
                  /\ orders'[i].status = "confirmed"
                  /\ tl # <<>>
                  /\ Last(tl).from_status = "pending"
                  /\ Last(tl).to_status = "confirmed"
                  /\ Last(tl).reason = "automatic"]_vars

\* C13: the target the rule set gives for an order and the status of its
\* payment is Confirmed iff the order is Pending and (it is VIP and the
\* payment succeeded, or it is paid in cash and is High or VIP); it is
\* Preparing iff the order is Confirmed, VIP and was confirmed at least 5
\* minutes ago; otherwise, and for every other status, there is no target.
C13_RuleSetDecision ==
    last_run # NoRun =>
        LET order == orders[1]
            target == last_run.target
            cash == order.payment_method \in {"cash", "Cash"}
        IN  /\ target \in {"confirmed", "preparing", "none"}
            /\ target = "confirmed" <=>
                  /\ order.status = "pending"
                  /\ \/ order.priority = "vip" /\ payments[1] = "success"
                     \/ cash /\ order.priority \in {"high", "vip"}
            /\ target = "preparing" <=>
                  /\ order.status = "confirmed"
                  /\ order.priority = "vip"
                  /\ now - order.status_confirmed_at >= 10
            /\ order.status \notin {"pending", "confirmed"} => target = "none"

\* C13 witness: a high-priority cash order without payment is to be
\* confirmed
C13_Witness ==
    /\ last_run # NoRun
    /\ last_run.target = "confirmed"
    /\ orders[1].priority = "high"
    /\ orders[1].payment_method = "Cash"
    /\ payments[1] = "none"

\* C17: a sweep retry_failed_notifications(max_retries) makes one delivery
\* attempt for exactly the notifications that are Failed with retry_count <
\* max_retries and leaves every other row as it is, so a Failed notification
\* whose retry_count has reached max_retries stays Failed; an attempt made by
\* the sweep is at most the max_retries-th attempt for its notification, and
\* with sweeps of at most the default limit no notification is attempted
\* more often than that.
C17_RetryBounded ==
    /\ [](\A i \in DOMAIN notifications :
              notifications[i].attempts <= DefaultMaxRetries)
    /\ [][\A max_retries \in SweepLimits :
            (\E failing \in SUBSET (DOMAIN notifications) :
                    RetryFailed(max_retries, failing))
            => /\ DOMAIN notifications' = DOMAIN notifications
               /\ \A i \in DOMAIN notifications :
                    LET n == notifications[i]
                        after == notifications'[i]
                        retried == n.status = "failed" /\ n.retry_count < max_retries
                    IN  /\ retried => /\ after.attempts = n.attempts + 1
                                      /\ after.attempts <= max_retries
                                      /\ after.status \in {"sent", "failed"}
                        /\ ~retried => after = n]_vars

\* C17 witness: a sweep with the default limit has made the third attempt
\* for a notification, which failed again
C17_Witness ==
    /\ last_run.task = "retry_failed_notifications"
    /\ last_run.max_retries = DefaultMaxRetries
    /\ \E i \in DOMAIN notifications :
            /\ notifications[i].status = "failed"
            /\ notifications[i].retry_count = DefaultMaxRetries
            /\ notifications[i].attempts = DefaultMaxRetries

\* C18: a Send with a schedule_for in the future adds a Scheduled row that
\* has not been attempted, a Send without one adds a row that has been
\* attempted once, and a Scheduled row is attempted only by a drain whose
\* current time has reached its scheduled_at.
C18_ScheduledSend ==
    [][/\ \A schedule_for \in {None} \cup (0 .. MaxTime), bot_ok \in BOOLEAN :
            Send("feedback_request", 1, schedule_for, bot_ok)
            => /\ Len(notifications') = Len(notifications) + 1
               /\ LET n == notifications'[Len(notifications')]
                  IN  IF schedule_for # None /\ schedule_for > now
                      THEN n.status = "scheduled" /\ n.attempts = 0
                      ELSE n.attempts = 1
       /\ \A i \in DOMAIN notifications :
            (/\ i \in DOMAIN notifications'
             /\ notifications[i].status = "scheduled"
             /\ notifications'[i].attempts # notifications[i].attempts)
            => /\ last_run'.task = "process_scheduled_notifications"
               /\ notifications[i].scheduled_at <= now]_vars

\* C14: when the handler of a task raises for the k-th time and k <=
\* max_retries, the task is back in the registry with retry_count = k and
\* execute_at = now + 5*k minutes; when it raises with retry_count =
\* max_retries the task is dropped, and when it returns the task is done:
\* such a task is in the registry and in a tick no more; a handler is
\* invoked at most max_retries + 1 times.
C14_RetryBackoff ==
    /\ [](\A task_id \in DOMAIN sched.log :
            LET l == sched.log[task_id]
            IN  /\ l.invoked <= l.max_retries + 1
                /\ l.fate \in {"done", "dropped"}
                    => /\ task_id \notin TaskIds(tasks)
                       /\ task_id \notin TaskIds(sched.due)
                       /\ task_id # sched.current.task_id)
    /\ [][(\E db_ok \in BOOLEAN, failing \in SUBSET (DOMAIN notifications) :
                handler_returns(db_ok, failing))
          => LET task_id == sched.current.task_id
                 k == sched'.log[task_id].failed
                 raised == k = sched.log[task_id].failed + 1
                 kept == {tasks'[i] : i \in DOMAIN tasks'}
             IN  /\ raised /\ k <= sched.current.max_retries
                    => \E task \in kept :
                          /\ task.task_id = task_id
                          /\ task.retry_count = k
                          /\ task.execute_at = now + timedelta_minutes(5 * k)
                 /\ raised /\ sched.current.retry_count = sched.current.max_retries
                    => /\ task_id \notin TaskIds(tasks')
                       /\ sched'.log[task_id].fate = "dropped"
                 /\ ~raised
                    => /\ task_id \notin TaskIds(tasks')
                       /\ sched'.log[task_id].fate = "done"]_vars

\* C14 witness: a task scheduled with max_retries = 1 was retried 5 minutes
\* after its first failure, failed again and was dropped
C14_Witness ==
    \E task_id \in DOMAIN sched.log :
        /\ sched.log[task_id].max_retries = 1
        /\ sched.log[task_id].invoked = 2
        /\ sched.log[task_id].failed = 2
        /\ sched.log[task_id].fate = "dropped"
        /\ task_id \notin TaskIds(tasks)

\* C15: a task for which cancel_task was called before its handler had
\* ever started is not in the registry, and its handler is never invoked.
C15_CancelBeforeFiring ==
    \A task_id \in DOMAIN sched.log :
        sched.log[task_id].cancelled
        => /\ sched.log[task_id].invoked = 0
           /\ task_id \notin TaskIds(tasks)

\* C16: a tick in which a handler raised or a task had no handler still
\* executes every task it collected and runs the drain of the database
\* notifications, and the loop then sleeps its 30 seconds and ticks again
\* while running is true.
C16_FailuresIsolated ==
    /\ sched.pc = "sleep"
        => /\ sched.executed = sched.collected
           /\ sched.due = <<>>
           /\ sched.drained = sched.ticked
           /\ sched.sleep = 1
    /\ sched.pc = "drain" => sched.executed = sched.collected
    /\ sched.running => sched.pc # "stopped"

\* C16 witness: a tick collected two tasks, the handler of the first one
\* raised, the second one was executed, and the drain has run
C16_Witness ==
    /\ sched.pc = "sleep"
    /\ sched.running
    /\ sched.collected = {<<"task", 1>>, <<"task", 2>>}
    /\ sched.executed = sched.collected
    /\ sched.drained = sched.ticked
    /\ sched.log[<<"task", 1>>].failed = 1
    /\ sched.log[<<"task", 2>>].fate = "done"

\* C11: a run of the overdue monitoring sends one alert for each overdue
\* order whose overdue_notification_sent flag is not set, counts it and sets
\* the flag; for an overdue order whose flag is set it sends nothing and
\* leaves the order as it is.  So an order is alerted about at most once.
C11_OverdueIdempotence ==
    [][\A threshold_minutes \in OverdueThresholds :
        (\E bot_ok \in BOOLEAN : process_overdue_orders(threshold_minutes, bot_ok))
        => LET overdue_orders == get_overdue_orders(threshold_minutes, now)
               overdue == {overdue_orders[k] : k \in DOMAIN overdue_orders}
               Flagged(order) ==
                   get_automation_flag(order.automation_flags,
                                       "overdue_notification_sent", FALSE)
               first == {i \in overdue : ~Flagged(orders[i])}
               Alerts(table, i) ==
                   {k \in DOMAIN table :
                        /\ table[k].notification_type = "admin_overdue_order"
                        /\ table[k].order_id = i}
           IN  /\ last_run'.notifications_sent = Cardinality(first)
               /\ \A i \in first :
                    /\ Flagged(orders'[i])
                    /\ Cardinality(Alerts(notifications', i)) = 1
               /\ \A i \in overdue \ first :
                    /\ orders'[i] = orders[i]
                    /\ Alerts(notifications', i) = Alerts(notifications, i)]_vars

\* the timing fields of an order, and the timestamp field of a status
TimingFields ==
    {"actual_preparation_start", "actual_preparation_end", "preparation_duration",
     "total_duration", "estimated_preparation_time", "estimated_delivery_time"}

StatusTimestamp ==
    [pending |-> "status_pending_at", confirmed |-> "status_confirmed_at",
     preparing |-> "status_preparing_at", ready |-> "status_ready_at",
     completed |-> "status_completed_at", cancelled |-> "status_cancelled_at"]

\* C21: a committed transition of an order to the status it already has
\* returns the order, adds one history record with from_status = to_status,
\* and leaves every timing field that had a value, and the timestamp of that
\* status, as it was.
C21_SameStatusIdempotent ==
    [][\A delivered \in BOOLEAN, hooks_ok \in BOOLEAN, d \in TickSteps :
          (/\ CommitOk("h1", delivered, hooks_ok, d)
           /\ hs["h1"].kind = "update"
           /\ hs["h1"].old_status = hs["h1"].new_status) =>
              LET id == hs["h1"].order_id
                  status == hs["h1"].new_status
                  kept == TimingFields \cup
                          (IF status \in DOMAIN StatusTimestamp
                           THEN {StatusTimestamp[status]} ELSE {})
              IN  /\ hs'["h1"].ret = "order"
                  /\ Len(history') = Len(history) + 1
                  /\ Last(history').from_status = status
                  /\ Last(history').to_status = status
                  /\ \A f \in kept :
                        orders[id][f] # None => orders'[id][f] = orders[id][f]]_vars

\* C22: when the engine takes an order into Ready whose
\* actual_preparation_start is set and whose preparation_duration has no
\* value yet, the order gets preparation_duration = actual_preparation_end -
\* actual_preparation_start in whole minutes, whatever the time of the
\* transition is.
C22_PreparationDuration ==
    [][LET hr == hs["h1"]
           after == hs'["h1"]
       IN  (hr.pc # "commit" /\ after.pc = "commit" /\ after.new_status = "ready") =>
               LET before == Cur(after).loaded
                   order == Cur(after).current
               IN  (/\ before.actual_preparation_start # None
                    /\ Falsy(before.preparation_duration)) =>
                       order.preparation_duration =
                           int_div_60(total_seconds(order.actual_preparation_end
                                                    - order.actual_preparation_start))]_vars

\* the times at which the overdue check of an order is probed: now, and the
\* ticks around its estimated delivery time
OverdueProbes(order) ==
    {now} \cup (IF order.estimated_delivery_time # None
                THEN {order.estimated_delivery_time - 1, order.estimated_delivery_time,
                      order.estimated_delivery_time + 1}
                ELSE {now + 1, now + timedelta_minutes(60)})

C24_CancelOrder ==
    [][/\ \A i \in RequestIds, c \in CancelInputs :
            cancel_order("h1", i, c[1], c[2]) =>
                IF i \in DOMAIN orders /\ orders[i].status \in {"pending", "confirmed", "preparing"}
                THEN /\ hs'["h1"].pc \in {"read", "commit"}
                     /\ hs'["h1"].new_status = "cancelled"
                     /\ hs'["h1"].user = c[1]
                     /\ Cur(hs'["h1"]).current.cancelled_by_user_id = c[1]
                     /\ Cur(hs'["h1"]).current.refund_amount =
                            (IF c[2] \in {None, 0} THEN orders[i].refund_amount ELSE c[2])
                ELSE /\ hs'["h1"].pc = "done"
                     /\ hs'["h1"].ret = "False"
                     /\ orders' = orders
                     /\ history' = history
       /\ \A delivered, hooks_ok \in BOOLEAN, d \in TickSteps :
            (CommitOk("h1", delivered, hooks_ok, d) /\ hs["h1"].kind = "cancel") =>
                LET id == hs["h1"].order_id
                    order == Cur(hs["h1"]).current
                IN  /\ hs'["h1"].pc = "done"
                    /\ hs'["h1"].ret = "True"
                    /\ orders'[id].status = "cancelled"
                    /\ orders'[id].cancellation_reason = "given"
                    /\ orders'[id].cancelled_by_user_id = hs["h1"].user
                    /\ order.refund_amount # Cur(hs["h1"]).loaded.refund_amount =>
                            orders'[id].refund_amount = order.refund_amount
                    /\ Len(history') = Len(history) + 1
                    /\ Last(history').order_id = id
                    /\ Last(history').to_status = "cancelled"
       /\ (CommitFail("h1") /\ hs["h1"].kind = "cancel") =>
                /\ hs'["h1"].ret = "False"
                /\ orders' = orders
                /\ history' = history
       /\ (hs["h1"].kind = "cancel" /\ hs["h1"].pc # "done" /\ hs'["h1"].ret = "True") =>
                /\ hs["h1"].pc = "commit"
                /\ orders'[hs["h1"].order_id].status = "cancelled"]_vars

\* C24 witness: a cancellation by a customer with a refund amount has
\* returned True and the stored order carries all of it
C24_Witness ==
    /\ hs["h1"].pc = "done"
    /\ hs["h1"].kind = "cancel"
    /\ hs["h1"].ret = "True"
    /\ \E i \in DOMAIN orders :
          /\ orders[i].status = "cancelled"
          /\ orders[i].cancelled_by_user_id \notin {None, 0}
          /\ orders[i].refund_amount \notin {None, 0}
          /\ Len(history) > 0
          /\ Last(history).to_status = "cancelled"

\* C25: every stored order has a history record, and its earliest one is the
\* creation record, from no status to Pending.
C25_CreationRecord ==
    \A i \in DOMAIN orders :
        LET rows == SelectByOrder(history, i)
        IN  /\ rows # <<>>
            /\ rows[1].from_status = "none"
            /\ rows[1].to_status = "pending"

\* C28: a sweep over the failed notifications returns the number of
\* notifications it re-attempted, the Failed rows with retry_count below
\* max_retries, whether or not the attempts succeeded.
C28_SweepCountsAttempts ==
    [][\A max_retries \in SweepLimits, failing \in SUBSET (DOMAIN notifications) :
          RetryFailed(max_retries, failing) =>
              last_run'.count =
                  Cardinality({i \in DOMAIN notifications :
                                  /\ notifications[i].status = "failed"
                                  /\ notifications[i].retry_count < max_retries})]_vars

\* the automation flags the hooks of a status are stated to leave on the order
HookFlags(status) ==
    CASE status = "confirmed" -> {<<"kitchen_notified", FALSE>>}
      [] status = "preparing" -> {<<"kitchen_notified", TRUE>>}
      [] status = "completed" -> {<<"feedback_eligible", TRUE>>}
      [] OTHER -> {}

\* C30: after a successful transition whose hooks ran, a read of the stored
\* order's automation flags gives kitchen_notified = false for Confirmed,
\* kitchen_notified = true for Preparing and feedback_eligible = true for
\* Completed.
C30_HookFlagsStored ==
    [][\A delivered \in BOOLEAN, d \in TickSteps :
          CommitOk("h1", delivered, TRUE, d) =>
              \A p \in HookFlags(hs["h1"].new_status) :
                  get_automation_flag(orders'[hs["h1"].order_id].automation_flags,
                                      p[1], FALSE) = p[2]]_vars

\* C27: every delivery attempt of a notification either makes it Sent with
\* sent_at = now and retry_count unchanged, or makes it Failed with
\* retry_count one higher; retry_count is the number of attempts of the row
\* that failed; and a Send without schedule_for whose transport fails leaves
\* a Failed row with retry_count = 1.
C27_AttemptOutcomes ==
    [][/\ \A i \in DOMAIN notifications :
            (/\ i \in DOMAIN notifications'
             /\ notifications'[i].attempts # notifications[i].attempts)
            => \/ notifications'[i] = [notifications[i] EXCEPT !.status = "sent",
                                           !.sent_at = now, !.attempts = @ + 1]
               \/ notifications'[i] = [notifications[i] EXCEPT !.status = "failed",
                                           !.retry_count = @ + 1, !.attempts = @ + 1]
       /\ \A i \in DOMAIN notifications' :
            notifications'[i].retry_count =
                notifications'[i].attempts
                    - (IF notifications'[i].status = "sent" THEN 1 ELSE 0)
       /\ Send("feedback_request", 1, None, FALSE)
            => /\ Len(notifications') = Len(notifications) + 1
               /\ Last(notifications').status = "failed"
               /\ Last(notifications').retry_count = 1]_vars

\* C29: there is never more than one rating of an order and a stored rating
\* never changes; a save for an order without a rating stores it, and a save
\* for an order that has one, found by the check or by the commit, returns
\* None and changes neither the ratings nor the notifications.
C29_DuplicateFeedback ==
    [][/\ \A i, j \in DOMAIN feedback' :
            feedback'[i].order_id = feedback'[j].order_id => i = j
       /\ \A i \in DOMAIN feedback :
            i \in DOMAIN feedback' /\ feedback'[i] = feedback[i]
       /\ \A h \in Handlers, i \in DOMAIN orders, rating \in FeedbackStars :
            save_feedback_rating(h, i, rating) =>
                IF i \in RatedOrders
                THEN /\ hs'[h].pc = "done"
                     /\ hs'[h].ret = "None"
                     /\ feedback' = feedback
                     /\ notifications' = notifications
                ELSE /\ hs'[h].pc = "insert"
                     /\ hs'[h].new = <<[order_id |-> i, rating |-> rating]>>
       /\ \A h \in Handlers, user_found \in BOOLEAN, bot_ok \in BOOLEAN :
            save_feedback_thanks(h, user_found, bot_ok) =>
                IF hs[h].order_id \in RatedOrders
                THEN /\ hs'[h].ret = "None"
                     /\ feedback' = feedback
                     /\ notifications' = notifications
                ELSE feedback' = Append(feedback, hs[h].new[1])]_vars

\* C29 witness: two workers took a rating of the same order; the first is
\* stored and the second, refused at its commit, was answered with None
C29_Witness ==
    /\ Len(feedback) = 1
    /\ feedback[1].rating = 1
    /\ \E h \in Handlers :
          /\ hs[h].pc = "done"
          /\ hs[h].kind = "feedback"
          /\ hs[h].ret = "None"
          /\ hs[h].err = "IntegrityError"

\* C26: when the handler of the daily-statistics task or of the retry-sweep
\* task has returned in a running scheduler, a task of the same type with a
\* later execute_at is in the registry.
C26_FixedSchedulesRecur ==
    [][\A db_ok \in BOOLEAN, failing \in SUBSET (DOMAIN notifications) :
          (/\ handler_returns(db_ok, failing)
           /\ sched.running
           /\ sched.current.task_type \in {"daily_stats", "retry_failed_notifications"}
           /\ sched'.log[sched.current.task_id].fate = "done")
          => \E i \in DOMAIN tasks' :
                /\ tasks'[i].task_type = sched.current.task_type
                /\ tasks'[i].execute_at > now]_vars

\* C31: a transition into Completed sets an unset total_duration to the
\* whole minutes since created_at and keeps a total_duration that is set;
\* delivery_completed_at becomes the time of the transition for a delivery
\* and stays unset for a pickup.
C31_CompletedTiming ==
    [][\A i \in DOMAIN orders :
          enter_completed(i) =>
              /\ orders'[i].total_duration =
                    (IF orders[i].total_duration = None
                     THEN int_div_60(total_seconds(now - orders[i].created_at))
                     ELSE orders[i].total_duration)
              /\ orders'[i].delivery_completed_at =
                    (IF orders[i].delivery_type = "delivery" THEN now ELSE None)]_vars

\* C32: the history record a transition adds carries as duration_from_previous
\* the whole minutes between the transition and the changed_at of the order's
\* most recent earlier record, and 0 when the order has no earlier record.
C32_DurationFromPrevious ==
    [][\A delivered, hooks_ok \in BOOLEAN, d \in TickSteps :
          CommitOk("h1", delivered, hooks_ok, d) =>
              LET id == hs["h1"].order_id
                  earlier == SelectByOrder(history, id)
                  record == Last(history')
              IN  /\ record.order_id = id
                  /\ record.changed_at = now
                  /\ record.duration_from_previous =
                        (IF earlier = <<>>
                         THEN 0
                         ELSE int_div_60(total_seconds(
                                  now - _get_last_status_history(id).changed_at)))]_vars

\* C33: the orders a run of the overdue monitoring finds are exactly the
\* orders for which is_overdue holds at the time of the run.
C33_OverdueScanAgrees ==
    [][\A threshold_minutes \in OverdueThresholds, bot_ok \in BOOLEAN :
          process_overdue_orders(threshold_minutes, bot_ok) =>
              LET overdue_orders == get_overdue_orders(threshold_minutes, now)
                  found == {overdue_orders[k] : k \in DOMAIN overdue_orders}
                  overdue == {i \in DOMAIN orders : is_overdue(orders[i], now)}
              IN  /\ found = overdue
                  /\ last_run'.overdue_orders_found = Cardinality(overdue)]_vars

\* C34: at most one loop that stop() has not been called for is on the
\* event loop; start() on a running scheduler creates no loop and schedules
\* nothing; and a loop that stop() has been called for ends at its next
\* check of line 70 without touching the registry.
C34_SingleLoop ==
    [][/\ Cardinality({k \in DOMAIN sched'.loops :
                          /\ ~sched'.loops[k].stopped
                          /\ sched'.loops[k].pc # "ended"}) <= 1
       /\ (scheduler_start /\ sched.running) =>
              /\ sched'.loops = sched.loops
              /\ tasks' = tasks
       /\ \A k \in DOMAIN sched.loops :
              (loop_tick(k) /\ sched.loops[k].stopped) =>
                  /\ sched'.loops[k].pc = "ended"
                  /\ tasks' = tasks]_vars

\* C35: a task that was scheduled once and whose handler never failed has
\* had its handler called at most once, whatever loops, schedule_task and
\* cancel_task calls interleave; and a tick removes from the registry and
\* hands to the handlers the due tasks only: a task whose execute_at is
\* later than the time of the tick stays in the registry and is not among
\* the tasks the tick executes.
C35_InvokedOnce ==
    [][/\ \A id \in DOMAIN sched'.log :
              sched'.log[id].failed = 0 => sched'.log[id].invoked <= 1
       /\ \A k \in DOMAIN sched.loops :
              (loop_tick(k) /\ sched.running) =>
                  LET loop == sched'.loops[k]
                      taken == TaskIds(loop.due) \cup loop.collected
                                 \cup (IF loop.current = NoTask THEN {}
                                       ELSE {loop.current.task_id})
                  IN  /\ \A j \in DOMAIN tasks :
                             IF tasks[j].execute_at > now
                             THEN /\ tasks[j].task_id \in TaskIds(tasks')
                                  /\ tasks[j].task_id \notin taken
                             ELSE /\ tasks[j].task_id \notin TaskIds(tasks')
                                  /\ tasks[j].task_id \in taken
                      /\ TaskIds(tasks') \subseteq TaskIds(tasks)]_vars

\* two loops run a tick at the same time, one awaiting the handler of a
\* task, after a task has been executed once and a later task is kept
C35_Witness ==
    /\ \E k, j \in DOMAIN sched.loops :
           /\ k # j
           /\ sched.loops[k].pc = "handler"
           /\ sched.loops[j].pc \in {"handler", "drain"}
    /\ \E id \in DOMAIN sched.log :
           /\ sched.log[id].invoked = 1
           /\ sched.log[id].fate = "done"
    /\ \E j \in DOMAIN tasks : tasks[j].execute_at > now

\* the status changes of order 1 in the order they were made, same-status
\* transitions left out
StatusChanges ==
    LET Changed(r) == r.from_status # r.to_status
    IN  SelectSeq(SelectByOrder(history, 1), Changed)

\* the position of a status on the way from Confirmed to Refunded
ForwardRank(s) ==
    CASE s = "confirmed" -> 1
      [] s = "preparing" -> 2
      [] s = "ready"     -> 3
      [] s \in {"completed", "cancelled"} -> 4
      [] s = "refunded"  -> 5
      [] OTHER -> 0

\* C36: under validated transitions a status change arrives at a status the
\* order has had before only over the edges Pending -> Failed and
\* Failed -> Pending; after the order has reached Confirmed it is never
\* Pending or Failed again, every later change goes strictly forward, and
\* there are at most 4 later changes, Refunded being the only status without
\* a way out; after Completed or Cancelled the order is never active again.
C36_ForwardLifecycle ==
    LET changes == StatusChanges
        Before(b) == {"pending"} \cup {changes[a].to_status : a \in 1 .. (b - 1)}
    IN  /\ \A b \in DOMAIN changes :
               changes[b].to_status \in Before(b) =>
                   <<changes[b].from_status, changes[b].to_status>>
                       \in {<<"pending", "failed">>, <<"failed", "pending">>}
        /\ \A a, b \in DOMAIN changes :
               (a < b /\ changes[a].to_status = "confirmed") =>
                   /\ changes[b].to_status \notin {"pending", "failed"}
                   /\ ForwardRank(changes[b].from_status) < ForwardRank(changes[b].to_status)
                   /\ b - a <= 4
        /\ \A a, b \in DOMAIN changes :
               (a < b /\ changes[a].to_status \in {"completed", "cancelled"}) =>
                   /\ changes[b].to_status \notin {"pending", "confirmed", "preparing", "ready"}
                   /\ ~is_active(orders[1])
        /\ orders[1].status = "refunded" <=>
               \A to_status \in OrderStatus \ {orders[1].status} :
                   ~_validate_transition(orders[1].status, to_status)
        /\ (changes # <<>> /\ Last(changes).to_status \in {"completed", "cancelled"}) =>
               ~is_active(orders[1])

\* C36 witness: the order went Pending, Failed, Pending, Confirmed and then
\* through the 4 changes Preparing, Ready, Completed, Refunded
C36_Witness ==
    LET changes == StatusChanges
    IN  /\ Len(changes) = 7
        /\ changes[2].from_status = "failed"
        /\ changes[2].to_status = "pending"
        /\ changes[3].to_status = "confirmed"
        /\ changes[6].to_status = "completed"
        /\ orders[1].status = "refunded"
        /\ Len(history) = MaxWalk

====
